---- MODULE Spec2Model ----
(***************************************************************************)
(* A model of the secure MCP gateway (datacline/secure-mcp-gateway):       *)
(* the policy engine, the JSON-RPC front end, the aggregator's name        *)
(* routing, the broadcast engine, the token caches and the upstream        *)
(* registry.                                                               *)
(*                                                                         *)
(* Strings are sequences of chunks: a chunk is a run of characters that    *)
(* holds none of the separators the code looks for, and each separator     *)
(* character (":", "_", "/") is a chunk of its own, so that split,         *)
(* startswith and "in" are computed on the sequence as Python computes     *)
(* them on the string.                                                     *)
(***************************************************************************)
EXTENDS Integers, Sequences, FiniteSets, TLC

VARIABLES
    yaml_policy,    \* PolicyEngine.yaml_policy: the loaded policy document
    enforcer,       \* PolicyEngine.enforcer: the Casbin p and g rows
    lastCheck,      \* the latest check_permission call under this snapshot
    servers,        \* MCPServerConfig.servers: the upstream registry, by its items
    routed,         \* the latest call the aggregator routed, and what came of it
    now,            \* the clock, in seconds
    auth_enabled,   \* settings.auth_enabled
    token_cache,    \* mcp_client_auth.token_cache: validated JWTs
    jwks_cache,     \* mcp_client_auth.jwks_cache
    intro_cache,    \* TokenIntrospectionVerifier.token_cache
    verified,       \* the latest token verification, on either path
    exchange,       \* the latest POST /mcp request and its response
    loader,         \* _load_config: where a reload stands, and the data it parsed
    reader,         \* a reader of the registry: the dict it iterates, the items it saw
    mcp_resource_server_url,  \* settings.mcp_resource_server_url
    discovery,      \* the latest OAuth challenge built or discovery document served
    auth_token_cache,  \* auth.token_cache: the tokens AuthService validated
    auth_jwks_cache,   \* auth.jwks_cache
    rest_exchange,  \* the latest request to a bearer-protected REST route
    flight          \* the request being handled step by step, and what it sent upstream

polVars == <<yaml_policy, enforcer, lastCheck>>

authVars == <<now, auth_enabled, token_cache, jwks_cache, intro_cache, verified, exchange>>

reloadVars == <<loader, reader>>

oauthVars == <<mcp_resource_server_url, discovery>>

restVars == <<auth_token_cache, auth_jwks_cache, rest_exchange>>

\* what the policy engine's operations leave alone
notPolVars == <<servers, routed, authVars, reloadVars, oauthVars, restVars, flight>>

vars == <<yaml_policy, enforcer, lastCheck, servers, routed, now, auth_enabled,
          token_cache, jwks_cache, intro_cache, verified, exchange, loader, reader,
          mcp_resource_server_url, discovery, auth_token_cache, auth_jwks_cache,
          rest_exchange, flight>>

------------------------------------------------------------------------------
(* Bounds *)

\* the longest rule list a policy document of the model holds
MaxRules == 2

\* the longest name, in chunks, a client hands the aggregator
MaxNameLen == 5

\* the longest target list of a broadcast
MaxTargets == 3

\* the latest time, in seconds, the clock of the model reaches
MaxTime == 300

\* the most upstream sessions the operations of one run open
MaxSessions == 2

\* settings.token_cache_ttl, the ttl of the JWT token cache, and the default
\* cache_ttl of TokenIntrospectionVerifier, in seconds
token_cache_ttl == 300
cache_ttl == 300

\* the seconds get_jwks keeps a fetched key set
JwksCacheSeconds == 3600

------------------------------------------------------------------------------
(* Strings *)

None == "None"

Range(s) == {s[i] : i \in 1..Len(s)}

\* str.startswith
StartsWith(s, p) == Len(p) <= Len(s) /\ SubSeq(s, 1, Len(p)) = p

\* str.find: the least index at which sep occurs in s, 0 when it does not
Find(s, sep) ==
    LET hits == {i \in 1..(Len(s) - Len(sep) + 1) : SubSeq(s, i, i + Len(sep) - 1) = sep}
    IN  IF hits = {} THEN 0 ELSE CHOOSE i \in hits : \A j \in hits : i <= j

\* the greatest index at which sep occurs in s, 0 when it does not
FindLast(s, sep) ==
    LET hits == {i \in 1..(Len(s) - Len(sep) + 1) : SubSeq(s, i, i + Len(sep) - 1) = sep}
    IN  IF hits = {} THEN 0 ELSE CHOOSE i \in hits : \A j \in hits : i >= j

\* str.split(sep): every part, sep a single chunk
RECURSIVE Split(_, _)
Split(s, sep) ==
    LET i == Find(s, <<sep>>)
    IN  IF i = 0 THEN <<s>>
        ELSE <<SubSeq(s, 1, i - 1)>> \o Split(SubSeq(s, i + 1, Len(s)), sep)

\* A YAML mapping is a record whose field "keys" is the set of keys the
\* mapping holds; the other fields carry the values (a filler of the value's
\* type under a key that is absent). dict.get(key, default):
Get(d, k, default) == IF k \in d.keys THEN d[k] ELSE default

\* key in dict
Has(d, k) == k \in d.keys

------------------------------------------------------------------------------
(* re.match for the patterns of the model: literal chunks, a leading "^",  *)
(* the chunk ".*", and a "*" with nothing before it to repeat, which       *)
(* re.compile rejects with re.error.                                       *)

ReBody(p) == IF Len(p) >= 1 /\ p[1] = "^" THEN Tail(p) ELSE p

ReValid(p) == ~(Len(ReBody(p)) >= 1 /\ ReBody(p)[1] = "*")

RECURSIVE ReMatchFrom(_, _)
ReMatchFrom(p, s) ==
    IF p = <<>> THEN TRUE
    ELSE IF Head(p) = ".*"
         THEN \E k \in 0..Len(s) : ReMatchFrom(Tail(p), SubSeq(s, k + 1, Len(s)))
         ELSE s # <<>> /\ Head(s) = Head(p) /\ ReMatchFrom(Tail(p), Tail(s))

\* re.match(pattern, string): anchored at the start, not at the end
ReMatch(p, s) == ReMatchFrom(ReBody(p), s)

------------------------------------------------------------------------------
(* The upstream registry: mcp_servers.yaml as MCPServerConfig holds it *)

\* one entry of the servers mapping
ServerConfig(keys, enabled, tags, tools) ==
    [keys |-> keys, url |-> "http", enabled |-> enabled, tags |-> tags, tools |-> tools]

\* the registry the gateway starts with: s1 and broadcast enabled, s2 disabled
DefaultServers ==
    { <<(<<"s1">>), ServerConfig({"url", "tags", "tools"}, TRUE, <<(<<"logging">>)>>, <<(<<"echo">>)>>)>>,
      <<(<<"s2">>), ServerConfig({"url", "enabled"}, FALSE, <<>>, <<>>)>>,
      <<(<<"broadcast">>), ServerConfig({"url", "enabled", "tools"}, TRUE, <<>>, <<(<<"*">>)>>)>> }

\* the names a mapping given by its items holds
Keys(items) == {item[1] : item \in items}

NoServer == [keys |-> {}, url |-> "", enabled |-> FALSE, tags |-> <<>>, tools |-> <<>>]

\* get_server: self.servers.get(name), None where the name is not a key
GetServer(registry, name) ==
    IF name \in Keys(registry)
    THEN (CHOOSE item \in registry : item[1] = name)[2]
    ELSE NoServer

\* a list that holds the members of S once each: the keys of a dict, in the
\* one order the dict keeps them
ListOf(S) == CHOOSE seq \in [1..Cardinality(S) -> S] : Range(seq) = S

\* get_enabled_servers: the names whose entry has enabled true or absent
GetEnabledServers(registry) ==
    {item[1] : item \in {x \in registry : Get(x[2], "enabled", TRUE)}}

\* get_servers_by_tags: the enabled names that carry one of the tags
GetServersByTags(registry, tags) ==
    {name \in GetEnabledServers(registry) :
        \E tag \in Range(tags) : tag \in Range(Get(GetServer(registry, name), "tags", <<>>))}

\* get_servers_with_tool: the enabled names that list the tool, or "*"
GetServersWithTool(registry, tool_name) ==
    {name \in GetEnabledServers(registry) :
        LET tools == Range(Get(GetServer(registry, name), "tools", <<>>))
        IN  tool_name \in tools \/ <<"*">> \in tools}

\* no broadcast: the shape of what invoke_tool_broadcast hands back
NoBroadcast ==
    [kind |-> "none", exc |-> "", target_servers |-> <<>>, results |-> {}, errors |-> {},
     total_servers |-> 0, successful |-> 0, failed |-> 0, upstream |-> {}, audit |-> {}]

\* what an aggregator handler hands back and causes: the text it answers
\* with, the MCPProxy calls it made, the upstream calls and audit events those
\* led to, and the broadcast outcome if it ran one
Out(text, proxy, upstream, audit, broadcast) ==
    [text |-> text, proxy |-> proxy, upstream |-> upstream, audit |-> audit,
     broadcast |-> broadcast]

NoOut == Out("", {}, {}, {}, NoBroadcast)

\* the state of the aggregator before any call is routed
NoRoute == [valid |-> FALSE, op |-> "", name |-> <<>>, out |-> NoOut]

\* jwks_cache = {'keys': None, 'expires_at': 0}
NoJwks == [keys |-> FALSE, expires_at |-> 0]

\* before any token is verified
NoVerify == [valid |-> FALSE, path |-> "", token |-> "", past_exp |-> FALSE,
             verdict |-> "", cached |-> FALSE, answered |-> FALSE, at |-> 0]

\* a JSON-RPC method member: a string, absent, or a value that is no string
Method(kind, s) == [kind |-> kind, s |-> s]

\* an HTTP response: status, the kind of body (a JSON-RPC result, a JSON-RPC
\* error, the OAuth challenge, or {}), and the code and message of an error
Response(status, kind, code, message) ==
    [status |-> status, kind |-> kind, code |-> code, message |-> message]

\* before any POST /mcp
NoExchange ==
    [valid |-> FALSE, body |-> "object", request_id |-> None, response_id |-> "absent",
     method |-> Method("none", <<>>), header |-> "none",
     token |-> "", name |-> <<>>, bearer_valid |-> FALSE, consulted |-> FALSE,
     response |-> Response(0, "", 0, <<>>), handlers |-> {}, out |-> NoOut, subject |-> ""]

\* the token caches empty, the clock at zero, no request served yet
AuthAtRest ==
    /\ now = 0
    /\ auth_enabled = TRUE
    /\ token_cache = {}
    /\ jwks_cache = NoJwks
    /\ intro_cache = {}
    /\ verified = NoVerify
    /\ exchange = NoExchange

\* no reload under way
NoLoad == [pc |-> "idle", data |-> [kind |-> "none", keys |-> {}, servers |-> {}]]

\* no read under way
NoRead == [pc |-> "idle", bound |-> {}, seen |-> {}, candidates |-> {}, during |-> FALSE]

ReloadAtRest ==
    /\ loader = NoLoad
    /\ reader = NoRead

\* a URL is the list of its chunks; the default of mcp_resource_server_url
DefaultResourceServerUrl == <<"http:", "/", "/", "localhost:8000", "/", "mcp">>

\* nothing built or served yet
NoDiscovery ==
    [kind |-> "none", status |-> 0, keys |-> {}, error |-> "", error_description |-> "",
     resource |-> <<>>,
     authorization_servers |-> <<>>, www_authenticate |-> {}, resource_metadata |-> <<>>]

OauthAtRest ==
    /\ mcp_resource_server_url = DefaultResourceServerUrl
    /\ discovery = NoDiscovery

\* what a dependency hands the route or raises: the user, or an HTTPException
\* as the default handler sends it, with the keys of its body and the
\* parameters of its WWW-Authenticate header
Outcome(kind, status, keys, www_authenticate, user) ==
    [kind |-> kind, status |-> status, keys |-> keys, www_authenticate |-> www_authenticate,
     user |-> user]

\* before any request to a REST route
NoRestExchange ==
    [valid |-> FALSE, route |-> "", header |-> "none", token |-> "",
     outcome |-> Outcome("none", 0, {}, {}, "")]

\* no request is being handled
NoFlight == [pc |-> "idle"]

RestAtRest ==
    /\ auth_token_cache = {}
    /\ auth_jwks_cache = NoJwks
    /\ rest_exchange = NoRestExchange

------------------------------------------------------------------------------
(* The audit logger *)

\* the parameters of AuditLogger.log_mcp_request, and those without a default
LogMcpRequestParams ==
    {"user", "action", "mcp_server", "tool_name", "parameters", "status",
     "policy_decision", "duration_ms", "response_status", "error"}

LogMcpRequestRequired == {"user", "action", "mcp_server"}

\* an audit event: the fields of it the model keeps
Event(event_type, action, mcp_server, tool_name, status) ==
    [event_type |-> event_type, action |-> action, mcp_server |-> mcp_server,
     tool_name |-> tool_name, status |-> status]

\* a call of log_mcp_request by keyword: Python binds it when every parameter
\* without a default is given and every keyword names a parameter, and raises
\* TypeError otherwise, before the body runs
LogMcpRequest(kwargs, action, mcp_server, tool_name, status) ==
    IF LogMcpRequestRequired \subseteq kwargs /\ kwargs \subseteq LogMcpRequestParams
    THEN [raised |-> FALSE,
          events |-> {Event("mcp_request", action, mcp_server, tool_name, status)}]
    ELSE [raised |-> TRUE, events |-> {}]

\* log_policy_violation
LogPolicyViolation(tool_name, action) ==
    {Event("policy_violation", action, <<>>, tool_name, "denied")}

------------------------------------------------------------------------------
(* MCPProxy: one upstream call *)

\* the keywords invoke_tool passes to log_mcp_request on success and on
\* failure; read_resource and get_prompt pass neither tool_name nor parameters
ProxyLogKwargs(action, status) ==
    {"user", "action", "mcp_server", "status", "duration_ms"}
    \cup (IF action = "invoke_tool" THEN {"tool_name", "parameters"} ELSE {})
    \cup (IF status = "success" THEN {"response_status"} ELSE {"error"})

\* the upstream of a server is contacted when the server is configured,
\* enabled and has a url
Reached(server_config) ==
    /\ server_config.keys # {}
    /\ Get(server_config, "enabled", TRUE)
    /\ Has(server_config, "url")

\* the outcome of a proxy call: up is what the upstream does when contacted;
\* the call is logged as success or error, and returns or raises accordingly
ProxyOutcome(action, mcp_server, item, reached, up) ==
    LET status == IF reached /\ up = "ok" THEN "success" ELSE "error"
        log == LogMcpRequest(ProxyLogKwargs(action, status), action, mcp_server,
                             IF action = "invoke_tool" THEN item ELSE <<>>, status)
    IN  [kind |-> IF status = "success" /\ ~log.raised THEN "return" ELSE "raise",
         upstream |-> IF reached THEN {<<action, mcp_server, item>>} ELSE {},
         audit |-> log.events]

\* invoke_tool, read_resource, get_prompt and the list calls, which differ in
\* the client method they call and the action they log
ProxyCall(registry, action, mcp_server, item, up) ==
    ProxyOutcome(action, mcp_server, item, Reached(GetServer(registry, mcp_server)), up)

\* invoke_tool
InvokeTool(registry, mcp_server, tool_name, up) ==
    ProxyCall(registry, "invoke_tool", mcp_server, tool_name, up)

\* read_resource
ReadResource(registry, mcp_server, uri, up) ==
    ProxyCall(registry, "read_resource", mcp_server, uri, up)

\* get_prompt
GetPrompt(registry, mcp_server, name, up) ==
    ProxyCall(registry, "get_prompt", mcp_server, name, up)

------------------------------------------------------------------------------
(* MCPProxy: broadcast *)

\* an optional argument: not given (None), or given with a value
Opt(given, value) == [given |-> given, value |-> value]

\* Python's truth of an optional list or string: given and not empty
Truthy(opt) == opt.given /\ opt.value # <<>>

\* the target selection of invoke_tool_broadcast
TargetServers(registry, tool_name, mcp_servers, tags) ==
    IF Truthy(mcp_servers) THEN mcp_servers.value
    ELSE IF Truthy(tags) THEN ListOf(GetServersByTags(registry, tags.value))
    ELSE IF GetServersWithTool(registry, tool_name) # {}
         THEN ListOf(GetServersWithTool(registry, tool_name))
    ELSE ListOf(GetEnabledServers(registry))

\* the children, awaited one after the other in the order of the targets:
\* child i is _invoke_tool_single on target i, ups[i] what its upstream does
Child(registry, target_servers, tool_name, ups, i) ==
    InvokeTool(registry, target_servers[i], tool_name, ups[i])

\* the keywords invoke_tool_broadcast passes to log_mcp_request
BroadcastLogKwargs ==
    {"user", "action", "tool_name", "parameters", "status", "duration_ms", "metadata"}

\* the end of invoke_tool_broadcast: the audit call, then the result dict
Aggregate(tool_name, target_servers, results, errors, upstream, audit) ==
    LET log == LogMcpRequest(BroadcastLogKwargs, "invoke_tool_broadcast", <<>>, tool_name,
                             IF results # {} THEN "success" ELSE "error")
    IN  [kind |-> IF target_servers = <<>> \/ log.raised THEN "raise" ELSE "return",
         exc |-> IF target_servers = <<>> THEN "ValueError"
                 ELSE IF log.raised THEN "TypeError" ELSE "",
         target_servers |-> target_servers, results |-> results, errors |-> errors,
         total_servers |-> Len(target_servers), successful |-> Cardinality(results),
         failed |-> Cardinality(errors), upstream |-> upstream,
         audit |-> audit \cup (IF target_servers = <<>> THEN {} ELSE log.events)]

\* the gathering loop: results and errors are dicts keyed by server name
Gather(tool_name, target_servers, children) ==
    Aggregate(tool_name, target_servers,
              {target_servers[i] : i \in {j \in DOMAIN children : children[j].kind = "return"}},
              {target_servers[i] : i \in {j \in DOMAIN children : children[j].kind = "raise"}},
              UNION {children[i].upstream : i \in DOMAIN children},
              UNION {children[i].audit : i \in DOMAIN children})

\* the fan-out over the targets
FanOut(registry, tool_name, target_servers, ups) ==
    Gather(tool_name, target_servers,
           [i \in 1..Len(target_servers) |->
                Child(registry, target_servers, tool_name, ups, i)])

\* invoke_tool_broadcast
InvokeToolBroadcast(registry, tool_name, mcp_servers, tags, ups) ==
    FanOut(registry, tool_name, TargetServers(registry, tool_name, mcp_servers, tags), ups)

------------------------------------------------------------------------------
(* MCPAggregatorServer: routing by name *)

Sep == <<"_", "_">>
BroadcastPrefix == <<"broadcast", "_", "_">>
ByTagPrefix == <<"broadcast", "_", "_", "by", "_", "tag", "_", "_">>

\* str.replace(old, ""): every occurrence of old is dropped, left to right
RECURSIVE Replace(_, _)
Replace(s, old) ==
    IF s = <<>> THEN <<>>
    ELSE IF StartsWith(s, old) THEN Replace(SubSeq(s, Len(old) + 1, Len(s)), old)
    ELSE <<Head(s)>> \o Replace(Tail(s), old)

\* name.rsplit("__", 1) in place of name.split("__", 1)
SplitAtLast(name) == FindLast(name, Sep)

\* where name.split("__", 1) cuts: at the first "__"
SplitAt(name) == Find(name, Sep)

ServerPart(name) == SubSeq(name, 1, SplitAt(name) - 1)
ItemPart(name) == SubSeq(name, SplitAt(name) + Len(Sep), Len(name))

\* the arguments of a tools/call: the keys the broadcast handlers read
Arguments(tool_name, servers_arg) == [tool_name |-> tool_name, servers |-> servers_arg]

\* the answer of _handle_broadcast_tool to what invoke_tool_broadcast did
BroadcastAnswer(tool_name, result) ==
    Out(IF result.kind = "raise" THEN "Error: Broadcast failed for" ELSE "BROADCAST RESULTS",
        {<<"invoke_tool_broadcast", <<>>, tool_name>>}, result.upstream, result.audit, result)

\* the enabled servers that carry the tag
TaggedServers(registry, tag) ==
    ListOf({n \in GetEnabledServers(registry) :
                tag \in Range(Get(GetServer(registry, n), "tags", <<>>))})

\* _handle_broadcast_tool
HandleBroadcastTool(registry, name, arguments, ups) ==
    IF StartsWith(name, ByTagPrefix)
    THEN IF ~Truthy(arguments.tool_name)
         THEN Out("Error: 'tool_name' is required for tag-based broadcast", {}, {}, {},
                  NoBroadcast)
         ELSE BroadcastAnswer(arguments.tool_name.value,
                  InvokeToolBroadcast(registry, arguments.tool_name.value,
                      Opt(TRUE, TaggedServers(registry, Replace(name, ByTagPrefix))),
                      Opt(FALSE, <<>>), ups))
    ELSE BroadcastAnswer(Replace(name, BroadcastPrefix),
             InvokeToolBroadcast(registry, Replace(name, BroadcastPrefix),
                                 arguments.servers, Opt(FALSE, <<>>), ups))

\* the answer of a handler to what the proxy call did
RoutedAnswer(call, result, ok_text, error_text) ==
    Out(IF result.kind = "return" THEN ok_text ELSE error_text, {call},
        result.upstream, result.audit, NoBroadcast)

\* handle_call_tool
HandleCallTool(registry, name, arguments, ups) ==
    IF StartsWith(name, BroadcastPrefix)
    THEN HandleBroadcastTool(registry, name, arguments, ups)
    ELSE IF Find(name, Sep) = 0
         THEN Out("Error: Invalid tool name format", {}, {}, {}, NoBroadcast)
    ELSE RoutedAnswer(<<"invoke_tool", ServerPart(name), ItemPart(name)>>,
                      InvokeTool(registry, ServerPart(name), ItemPart(name), ups[1]),
                      "content", "Error: Failed to call tool")

\* handle_read_resource
HandleReadResource(registry, uri, ups) ==
    IF Find(uri, Sep) = 0
    THEN Out("Invalid resource URI format", {}, {}, {}, NoBroadcast)
    ELSE RoutedAnswer(<<"read_resource", ServerPart(uri), ItemPart(uri)>>,
                      ReadResource(registry, ServerPart(uri), ItemPart(uri), ups[1]),
                      "content", "Failed to read resource")

\* handle_get_prompt
HandleGetPrompt(registry, name, ups) ==
    IF Find(name, Sep) = 0
    THEN Out("Error: Invalid prompt name format", {}, {}, {}, NoBroadcast)
    ELSE RoutedAnswer(<<"get_prompt", ServerPart(name), ItemPart(name)>>,
                      GetPrompt(registry, ServerPart(name), ItemPart(name), ups[1]),
                      "messages", "Error: Failed to get prompt")

------------------------------------------------------------------------------
(* Policy documents *)

Users == {"alice", "bob"}
\* the groups argument: None (not given), [] or a list of group names
Groups(given, list) == [given |-> given, list |-> list]
GroupArgs == {Groups(FALSE, <<>>), Groups(TRUE, <<"devs">>)}
Actions == {"invoke_tool", "list_tools"}

Star == <<"*">>
ResAdmin == <<"mcp", ":", "s1", ":", "admin", "_", "reset">>
ResEcho == <<"mcp", ":", "s1", ":", "echo">>
ResTwo == <<"mcp", ":", "s2">>
ResOne == <<"tools">>
Resources == {ResAdmin, ResEcho, ResTwo, ResOne}

\* a resource pattern of a role permission: every tool of s1
ResAnyOfS1 == <<"mcp", ":", "s1", ":", ".*">>

Cond(keys, user, action, server, pattern) ==
    [keys |-> keys, user |-> user, action |-> action, mcp_server |-> server,
     tool_name_pattern |-> pattern]

NoCond == Cond({}, "", "", <<>>, <<>>)

Rule(keys, name, priority, action, condition) ==
    [keys |-> keys, name |-> name, priority |-> priority, action |-> action,
     condition |-> condition]

AllKeys == {"name", "priority", "action", "condition"}

\* the rules the documents of the model are built from
RulePool ==
    { Rule(AllKeys, "deny_admin", 100, "deny",
           Cond({"tool_name_pattern"}, "", "", <<>>, <<"^", "admin", "_", ".*">>)),
      Rule(AllKeys, "allow_alice", 100, "allow",
           Cond({"user"}, "alice", "", <<>>, <<>>)),
      Rule(AllKeys, "audit_all", 200, "audit", NoCond),
      Rule(AllKeys, "bad_regex", 150, "deny",
           Cond({"tool_name_pattern"}, "", "", <<>>, <<"*">>)),
      Rule({"condition"}, "", 0, "",
           Cond({"mcp_server", "action"}, "", "invoke_tool", <<"s1">>, <<>>)) }

RuleLists == UNION {[1..n -> RulePool] : n \in 0..MaxRules}

Perm(resource, actions) == [keys |-> {"resource", "actions"}, resource |-> resource,
                            actions |-> actions]

\* roles, user_roles and group_roles of the documents of the model, each
\* mapping given by its items
RoleConfigs ==
    { [roles |-> {}, user_roles |-> {}, group_roles |-> {}],
      [roles |-> {<<"dev", <<Perm(ResEcho, <<"invoke_tool">>)>>>>,
                  <<"ops", <<Perm(ResAnyOfS1, <<"invoke_tool">>)>>>>},
       user_roles |-> {<<"alice", <<"dev">>>>, <<"bob", <<"ops">>>>},
       group_roles |-> {}],
      [roles |-> {<<"dev", <<Perm(Star, <<"*">>)>>>>},
       user_roles |-> {},
       group_roles |-> {<<"devs", <<"dev">>>>}] }

PolicyDocs ==
    { [roles |-> rc.roles, user_roles |-> rc.user_roles, group_roles |-> rc.group_roles,
       rules |-> rl, default_policy |-> dp] :
        rc \in RoleConfigs, rl \in RuleLists, dp \in {"allow", "deny"} }

\* the document _load_yaml_policy returns when there is no policy file
DefaultPolicy ==
    [roles |-> {}, user_roles |-> {}, group_roles |-> {}, rules |-> <<>>,
     default_policy |-> "deny"]

------------------------------------------------------------------------------
(* PolicyEngine *)

\* _sync_yaml_to_casbin: the enforcer is cleared and refilled from the document
SyncYamlToCasbin(doc) ==
    [ p |-> UNION { UNION { { <<role[1], Get(perm, "resource", Star), a>> :
                                a \in Range(Get(perm, "actions", <<>>)) } :
                            perm \in Range(role[2]) } :
                    role \in doc.roles },
      g |-> UNION { { <<ur[1], r>> : r \in Range(ur[2]) } : ur \in doc.user_roles }
            \cup UNION { { <<gr[1], r>> : r \in Range(gr[2]) } : gr \in doc.group_roles } ]

\* the role manager's has_link: sub is ancestor, or reaches it through g rows
RECURSIVE HasLinkWithin(_, _, _, _)
HasLinkWithin(g, sub, ancestor, n) ==
    \/ sub = ancestor
    \/ /\ n > 0
       /\ \E row \in g : row[1] = sub /\ HasLinkWithin(g, row[2], ancestor, n - 1)

HasLink(g, sub, ancestor) == HasLinkWithin(g, sub, ancestor, Cardinality(g))

\* Casbin's regexMatch(key1, key2) is re.match(key2, key1)
RegexMatch(key1, key2) == ReValid(key2) /\ ReMatch(key2, key1)

\* enforcer.enforce under the model of _ensure_config_files:
\*   m = g(r.sub, p.sub) && (p.obj == "*" || r.obj == p.obj ||
\*       regexMatch(p.obj, r.obj)) && (p.act == "*" || r.act == p.act)
\*   e = some(where (p.eft == allow))
Enforce(e, sub, obj, act) ==
    \E row \in e.p :
        /\ HasLink(e.g, sub, row[1])
        /\ (row[2] = Star \/ obj = row[2] \/ RegexMatch(row[2], obj))
        /\ (row[3] = "*" \/ act = row[3])

\* what a call hands back: a returned pair or a raised exception
Return(allowed, reason) == [kind |-> "return", allowed |-> allowed, reason |-> reason]
Raise(exc) == [kind |-> "raise", allowed |-> FALSE, reason |-> <<exc>>]

\* _match_rule_condition: "match", "nomatch", or "re.error" when re.match
\* is handed a pattern that does not compile
MatchRuleCondition(condition, user, resource, action) ==
    LET parts == Split(resource, ":")
    IN  IF Has(condition, "user") /\ condition.user # user THEN "nomatch"
        ELSE IF Has(condition, "action") /\ condition.action # action THEN "nomatch"
        ELSE IF Has(condition, "mcp_server")
                /\ (Len(parts) < 2 \/ condition.mcp_server # parts[2]) THEN "nomatch"
        ELSE IF Has(condition, "tool_name_pattern")
             THEN IF Len(parts) >= 3
                  THEN IF ~ReValid(condition.tool_name_pattern) THEN "re.error"
                       ELSE IF ReMatch(condition.tool_name_pattern, parts[3])
                            THEN "match" ELSE "nomatch"
                  ELSE "nomatch"
        ELSE "match"

RulePriority(rule) == Get(rule, "priority", 0)

\* the position sorted() puts first: the greatest priority, and the earliest
\* position among equals (the sort is stable)
FirstByPriority(rules) ==
    CHOOSE i \in 1..Len(rules) :
        \A j \in 1..Len(rules) :
            \/ RulePriority(rules[j]) < RulePriority(rules[i])
            \/ RulePriority(rules[j]) = RulePriority(rules[i]) /\ i <= j

Without(s, i) == SubSeq(s, 1, i - 1) \o SubSeq(s, i + 1, Len(s))

\* sorted(rules, key=lambda r: r.get('priority', 0), reverse=True)
RECURSIVE SortedRules(_)
SortedRules(rules) ==
    IF rules = <<>> THEN <<>>
    ELSE LET i == FirstByPriority(rules)
         IN  <<rules[i]>> \o SortedRules(Without(rules, i))

NoRule == [kind |-> "none", allowed |-> FALSE, reason |-> <<>>]

\* the loop of _check_custom_rules over the sorted rules
RECURSIVE WalkRules(_, _, _, _)
WalkRules(sorted_rules, user, resource, action) ==
    IF sorted_rules = <<>> THEN NoRule
    ELSE LET rule == Head(sorted_rules)
             m == MatchRuleCondition(Get(rule, "condition", NoCond), user, resource, action)
             rule_action == Get(rule, "action", "deny")
             rule_name == Get(rule, "name", "unnamed rule")
         IN  IF m = "re.error" THEN Raise("re.error")
             ELSE IF m = "match" /\ rule_action = "deny"
                  THEN Return(FALSE, <<"denied by rule", rule_name>>)
             ELSE IF m = "match" /\ rule_action = "allow"
                  THEN Return(TRUE, <<"allowed by rule", rule_name>>)
             ELSE WalkRules(Tail(sorted_rules), user, resource, action)

\* _check_custom_rules
CheckCustomRules(doc, user, resource, action) ==
    WalkRules(SortedRules(doc.rules), user, resource, action)

\* check_permission
CheckPermission(doc, e, user, resource, action, groups) ==
    LET rule_result == CheckCustomRules(doc, user, resource, action)
        granting == IF groups.given
                    THEN {i \in 1..Len(groups.list) : Enforce(e, groups.list[i], resource, action)}
                    ELSE {}
    IN  IF rule_result.kind # "none" THEN rule_result
        ELSE IF Enforce(e, user, resource, action)
             THEN Return(TRUE, <<"allowed by user permission">>)
        ELSE IF granting # {}
             THEN Return(TRUE, <<"allowed by group permission",
                                 groups.list[CHOOSE i \in granting : \A j \in granting : i <= j]>>)
        ELSE IF doc.default_policy = "allow"
             THEN Return(TRUE, <<"allowed by default policy">>)
        ELSE Return(FALSE, <<"denied by default policy">>)

\* rules.sort(...) in place of sorted(rules, ...): the document is reordered
RulesSortedInPlace(rules) == SortedRules(rules)

\* the rule list check_permission leaves in yaml_policy: sorted() builds a
\* new list, the document's own list is not reordered
RulesAfterCheck(rules) == rules

------------------------------------------------------------------------------
(* The policy engine as a state machine *)

NoCheck == [valid |-> FALSE, repeat |-> FALSE, user |-> "", groups |-> Groups(FALSE, <<>>),
            resource |-> <<>>, action |-> "", out |-> NoRule]

\* PolicyEngine.__init__
InitPolicy ==
    /\ yaml_policy \in PolicyDocs
    /\ enforcer = SyncYamlToCasbin(yaml_policy)
    /\ lastCheck = NoCheck
    /\ servers = DefaultServers
    /\ routed = NoRoute
    /\ AuthAtRest
    /\ ReloadAtRest
    /\ OauthAtRest
    /\ RestAtRest
    /\ flight = NoFlight

\* a call of check_permission
CheckPermissionCall(user, groups, resource, action) ==
    /\ lastCheck' = [valid |-> TRUE,
                     repeat |-> /\ lastCheck.valid
                                /\ lastCheck.user = user /\ lastCheck.groups = groups
                                /\ lastCheck.resource = resource
                                /\ lastCheck.action = action,
                     user |-> user, groups |-> groups,
                     resource |-> resource, action |-> action,
                     out |-> CheckPermission(yaml_policy, enforcer, user, resource,
                                             action, groups)]
    /\ yaml_policy' = [yaml_policy EXCEPT !.rules = RulesAfterCheck(@)]
    /\ UNCHANGED enforcer
    /\ UNCHANGED notPolVars

\* the documents one edit of the policy file away from doc
DocEdits(doc) ==
    { [doc EXCEPT !.default_policy = dp] : dp \in {"allow", "deny"} }
    \cup { [doc EXCEPT !.roles = rc.roles, !.user_roles = rc.user_roles,
                       !.group_roles = rc.group_roles] : rc \in RoleConfigs }
    \cup { [doc EXCEPT !.rules = Append(@, r)] :
            r \in {x \in RulePool : Len(doc.rules) < MaxRules} }
    \cup { [doc EXCEPT !.rules = SubSeq(@, 1, Len(@) - 1)] :
            x \in {y \in {1} : Len(doc.rules) > 0} }

\* reload_policy: the edited document is read and the enforcer refilled
ReloadPolicy(doc) ==
    /\ doc \in DocEdits(yaml_policy) \ {yaml_policy}
    /\ yaml_policy' = doc
    /\ enforcer' = SyncYamlToCasbin(doc)
    /\ lastCheck' = NoCheck
    /\ UNCHANGED notPolVars

\* add_policy: a p row is added to the enforcer alone
AddPolicy(user, resource, action) ==
    /\ <<user, resource, action>> \notin enforcer.p
    /\ enforcer' = [enforcer EXCEPT !.p = @ \cup {<<user, resource, action>>}]
    /\ lastCheck' = NoCheck
    /\ UNCHANGED yaml_policy
    /\ UNCHANGED notPolVars

\* remove_policy
RemovePolicy(user, resource, action) ==
    /\ <<user, resource, action>> \in enforcer.p
    /\ enforcer' = [enforcer EXCEPT !.p = @ \ {<<user, resource, action>>}]
    /\ lastCheck' = NoCheck
    /\ UNCHANGED yaml_policy
    /\ UNCHANGED notPolVars

CheckStep ==
    \E user \in Users, groups \in GroupArgs, resource \in Resources, action \in Actions :
        CheckPermissionCall(user, groups, resource, action)

ReloadStep == \E doc \in DocEdits(yaml_policy) : ReloadPolicy(doc)

AddPolicyStep == AddPolicy("bob", ResEcho, "invoke_tool")

RemovePolicyStep == RemovePolicy("bob", ResEcho, "invoke_tool")

NextPolicy == CheckStep \/ ReloadStep \/ AddPolicyStep \/ RemovePolicyStep

SpecPolicy == InitPolicy /\ [][NextPolicy]_vars

------------------------------------------------------------------------------
(* Claims about the policy engine *)

SameInputs(a, b) ==
    /\ a.user = b.user /\ a.groups = b.groups
    /\ a.resource = b.resource /\ a.action = b.action

MatchingRules ==
    {i \in 1..Len(yaml_policy.rules) :
        MatchRuleCondition(Get(yaml_policy.rules[i], "condition", NoCond),
                           lastCheck.user, lastCheck.resource, lastCheck.action) = "match"}

\* the matching rule of the greatest priority, the first in the document among equals
TopMatchingRule ==
    CHOOSE i \in MatchingRules :
        \A j \in MatchingRules :
            \/ RulePriority(yaml_policy.rules[j]) < RulePriority(yaml_policy.rules[i])
            \/ /\ RulePriority(yaml_policy.rules[j]) = RulePriority(yaml_policy.rules[i])
               /\ i <= j

\* C9: when at least one rule's condition matches the request, the decision
\* is the action of the matching rule of the highest priority, the first in
\* the document among rules of equal priority, whatever the role and group
\* permissions and the default policy say.
C9_TopMatchingRuleDecides ==
    (lastCheck.valid /\ MatchingRules # {}) =>
        LET rule == yaml_policy.rules[TopMatchingRule]
            rule_action == Get(rule, "action", "deny")
            rule_name == Get(rule, "name", "unnamed rule")
        IN  \/ rule_action = "deny"
               /\ lastCheck.out = Return(FALSE, <<"denied by rule", rule_name>>)
            \/ rule_action = "allow"
               /\ lastCheck.out = Return(TRUE, <<"allowed by rule", rule_name>>)

\* C10: check_permission never raises: every call returns an
\* (allow|deny, reason) pair.
C10_CheckNeverRaises ==
    lastCheck.valid => lastCheck.out.kind = "return"

------------------------------------------------------------------------------
(* The aggregator's routing as a state machine *)

notRouteVars == <<yaml_policy, enforcer, lastCheck, servers, authVars, reloadVars, oauthVars, restVars, flight>>

NameChunks == {"s1", "_"}

\* the names clients send: every sequence of the chunks up to the bound, and
\* each of them behind a leading "broadcast"
PlainNames(len) == UNION {[1..n -> NameChunks] : n \in 0..len}

Names == PlainNames(MaxNameLen)
         \cup {<<"broadcast">> \o name : name \in PlainNames(MaxNameLen - 1)}

\* what the upstreams do with the calls of one request, by position
Outcomes == {"ok", "fail"}
Ups == [1..MaxTargets -> Outcomes]
SameUps == {[i \in 1..MaxTargets |-> u] : u \in Outcomes}

NoArguments == Arguments(Opt(FALSE, <<>>), Opt(FALSE, <<>>))

InitNames ==
    /\ yaml_policy = DefaultPolicy
    /\ enforcer = SyncYamlToCasbin(DefaultPolicy)
    /\ lastCheck = NoCheck
    /\ servers = DefaultServers
    /\ routed = NoRoute
    /\ AuthAtRest
    /\ ReloadAtRest
    /\ OauthAtRest
    /\ RestAtRest
    /\ flight = NoFlight

\* tools/call arrives at handle_call_tool
CallTool(name, ups) ==
    /\ routed' = [valid |-> TRUE, op |-> "tools/call", name |-> name,
                  out |-> HandleCallTool(servers, name, NoArguments, ups)]
    /\ UNCHANGED notRouteVars

\* resources/read arrives at handle_read_resource
ReadResourceCall(uri, ups) ==
    /\ routed' = [valid |-> TRUE, op |-> "resources/read", name |-> uri,
                  out |-> HandleReadResource(servers, uri, ups)]
    /\ UNCHANGED notRouteVars

\* prompts/get arrives at handle_get_prompt
GetPromptCall(name, ups) ==
    /\ routed' = [valid |-> TRUE, op |-> "prompts/get", name |-> name,
                  out |-> HandleGetPrompt(servers, name, ups)]
    /\ UNCHANGED notRouteVars

CallToolStep == \E name \in Names, ups \in SameUps : CallTool(name, ups)
ReadResourceStep == \E uri \in Names, ups \in SameUps : ReadResourceCall(uri, ups)
GetPromptStep == \E name \in Names, ups \in SameUps : GetPromptCall(name, ups)

NextNames == CallToolStep \/ ReadResourceStep \/ GetPromptStep

SpecNames == InitNames /\ [][NextNames]_vars

\* the MCPProxy method behind each routed operation
ProxyMethod(op) ==
    CASE op = "tools/call" -> "invoke_tool"
      [] op = "resources/read" -> "read_resource"
      [] OTHER -> "get_prompt"

------------------------------------------------------------------------------
(* Broadcasts as a state machine *)

\* the server names a caller may list: two that are configured and enabled,
\* one that is configured and disabled
ListedServers == {<<"s1">>, <<"broadcast">>, <<"s2">>}

\* the target lists a caller passes: any list of the names, repeats included
TargetLists == UNION {[1..n -> ListedServers] : n \in 0..MaxTargets}

TagLists == {<<>>, <<(<<"logging">>)>>, <<(<<"metrics">>)>>}

Echo == <<"echo">>

\* tools/call of broadcast__echo: the regular broadcast tool
BroadcastTool(servers_arg, ups) ==
    /\ routed' = [valid |-> TRUE, op |-> "tools/call", name |-> BroadcastPrefix \o Echo,
                  out |-> HandleCallTool(servers, BroadcastPrefix \o Echo,
                                         Arguments(Opt(FALSE, <<>>), servers_arg), ups)]
    /\ UNCHANGED notRouteVars

\* tools/call of broadcast__by_tag__<tag>
BroadcastByTag(tag, tool_name, ups) ==
    /\ routed' = [valid |-> TRUE, op |-> "tools/call", name |-> ByTagPrefix \o tag,
                  out |-> HandleCallTool(servers, ByTagPrefix \o tag,
                                         Arguments(tool_name, Opt(FALSE, <<>>)), ups)]
    /\ UNCHANGED notRouteVars

\* POST /mcp/invoke-broadcast: the REST route hands the caller's lists to
\* invoke_tool_broadcast and answers 500 when it raises
InvokeBroadcastRoute(mcp_servers, tags, ups) ==
    LET result == InvokeToolBroadcast(servers, Echo, mcp_servers, tags, ups)
    IN  /\ routed' = [valid |-> TRUE, op |-> "invoke-broadcast", name |-> Echo,
                      mcp_servers |-> mcp_servers, tags |-> tags,
                      out |-> Out(IF result.kind = "raise"
                                  THEN "500 Broadcast invocation failed"
                                  ELSE "InvokeBroadcastResponse",
                                  {<<"invoke_tool_broadcast", <<>>, Echo>>},
                                  result.upstream, result.audit, result)]
        /\ UNCHANGED notRouteVars

BroadcastToolStep ==
    \E given \in BOOLEAN, list \in TargetLists, ups \in Ups :
        BroadcastTool(Opt(given, IF given THEN list ELSE <<>>), ups)

BroadcastByTagStep ==
    \E tag \in {<<"logging">>, <<"metrics">>}, given \in BOOLEAN, ups \in Ups :
        BroadcastByTag(tag, Opt(given, IF given THEN Echo ELSE <<>>), ups)

InvokeBroadcastRouteStep ==
    \E given \in BOOLEAN, list \in TargetLists, tags \in TagLists, ups \in Ups :
        InvokeBroadcastRoute(Opt(given, IF given THEN list ELSE <<>>),
                             Opt(tags # <<>>, tags), ups)

NextBroadcast == BroadcastToolStep \/ BroadcastByTagStep \/ InvokeBroadcastRouteStep

SpecBroadcast == InitNames /\ [][NextBroadcast]_vars

\* the latest call ran a broadcast whose fan-out completed: there were
\* targets, and every child was awaited
FanOutCompleted ==
    /\ routed.valid
    /\ routed.out.broadcast.kind # "none"
    /\ routed.out.broadcast.target_servers # <<>>

C4_BroadcastNeverFailsAsAWhole ==
    FanOutCompleted =>
        /\ routed.out.broadcast.kind = "return"
        /\ routed.op = "tools/call" => routed.out.text = "BROADCAST RESULTS"

\* the latest call was POST /mcp/invoke-broadcast: routed holds the lists the
\* caller passed
BroadcastRouted == routed.valid /\ routed.op = "invoke-broadcast"

\* the selection by rule: the explicit servers if passed, else the enabled
\* upstreams by tag if tags were passed, else the enabled upstreams with the
\* tool, else all enabled upstreams
SelectedByRule(registry, tool_name, mcp_servers, tags) ==
    IF mcp_servers.given THEN Range(mcp_servers.value)
    ELSE IF tags.given THEN GetServersByTags(registry, tags.value)
    ELSE IF GetServersWithTool(registry, tool_name) # {}
         THEN GetServersWithTool(registry, tool_name)
    ELSE GetEnabledServers(registry)

\* C16: the targets of a broadcast are the explicit servers if the caller
\* passed them, else the enabled upstreams whose tags intersect the passed
\* tags, else the enabled upstreams that declare the tool or "*", else all
\* enabled upstreams; when that set is empty the broadcast fails with the
\* no-targets error and no upstream is contacted.
C16_TargetSelection ==
    BroadcastRouted =>
        LET b == routed.out.broadcast
            selected == SelectedByRule(servers, routed.name, routed.mcp_servers, routed.tags)
        IN  /\ Range(b.target_servers) = selected
            /\ selected = {} =>
                    /\ b.kind = "raise" /\ b.exc = "ValueError"
                    /\ b.upstream = {}

\* the names of an explicit list that are configured and enabled
EnabledOf(registry, list) ==
    SelectSeq(list, LAMBDA name : name \in GetEnabledServers(registry))

\* C17: with an explicit servers list the targets are that list filtered to
\* the enabled configured upstreams: a disabled or unconfigured name is no
\* target, is not counted in total_servers, and no call is attempted for it
\* (it is in neither results nor errors).
C17_ExplicitListFilteredToEnabled ==
    (BroadcastRouted /\ Truthy(routed.mcp_servers)) =>
        LET b == routed.out.broadcast
            kept == EnabledOf(servers, routed.mcp_servers.value)
        IN  /\ Range(b.target_servers) = Range(kept)
            /\ b.total_servers = Len(kept)
            /\ b.results \cup b.errors \subseteq GetEnabledServers(servers)

\* the latest call was a tools/call of broadcast__by_tag__{tag} that named
\* a tool
ByTagRouted ==
    /\ routed.valid /\ routed.op = "tools/call"
    /\ StartsWith(routed.name, ByTagPrefix)
    /\ routed.out.broadcast.kind # "none"

\* the tag a by-tag name embeds
TagOf(name) == SubSeq(name, Len(ByTagPrefix) + 1, Len(name))

\* C24: a call of broadcast__by_tag__{tag} invokes the tool only on enabled
\* upstreams whose tags hold the tag; when no enabled upstream carries the
\* tag, no upstream is called and the call yields an error.
C24_ByTagReachesOnlyTagged ==
    ByTagRouted =>
        LET carriers == GetServersByTags(servers, <<TagOf(routed.name)>>)
        IN  /\ \A call \in routed.out.upstream : call[2] \in carriers
            /\ carriers = {} =>
                  /\ routed.out.upstream = {}
                  /\ routed.out.broadcast.exc = "ValueError"

------------------------------------------------------------------------------
(* Bearer tokens and the caches of validated tokens *)

\* an access token: whether its key is in the JWKS and its signature
\* verifies, its exp, whether its iss is a trusted issuer, its aud (absent, an
\* accepted audience or another), whether it carries the required scopes
Token(id, sig, exp, iss, aud, scopes, sub) ==
    [id |-> id, sig |-> sig, exp |-> exp, iss |-> iss, aud |-> aud, scopes |-> scopes,
     sub |-> sub]

TokGood == Token("good", TRUE, 150, TRUE, "ok", TRUE, "alice")
TokForged == Token("forged", FALSE, 900, TRUE, "ok", TRUE, "alice")
TokNoScope == Token("noscope", TRUE, 900, TRUE, "none", FALSE, "bob")

TokWrongIssuer == Token("wrongiss", TRUE, 900, FALSE, "ok", TRUE, "carol")
TokWrongAudience == Token("wrongaud", TRUE, 900, TRUE, "bad", TRUE, "carol")

Tokens == {TokGood, TokForged, TokNoScope, TokWrongIssuer, TokWrongAudience}

\* the entries of a TTLCache that a lookup at time t still finds
Live(cache, t, ttl) == {e \in cache : t < e.inserted + ttl}

\* cache[key] = value at time t: expired entries are dropped, the key's entry
\* is replaced
Insert(cache, token, t, ttl) ==
    {e \in Live(cache, t, ttl) : e.token # token} \cup {[token |-> token, inserted |-> t]}

\* an HTTPException of the given status, or the claims of the token
Http(status) == [kind |-> "http", status |-> status, cached |-> FALSE]
Claims(cached) == [kind |-> "claims", status |-> 200, cached |-> cached]

\* get_jwks: the cached key set while it lasts, a fetch otherwise
JwksAvailable(jwks, fetch_ok, t) == (jwks.keys /\ jwks.expires_at > t) \/ fetch_ok

JwksAfter(jwks, fetch_ok, t) ==
    IF jwks.keys /\ jwks.expires_at > t THEN jwks
    ELSE IF fetch_ok THEN [keys |-> TRUE, expires_at |-> t + JwksCacheSeconds]
    ELSE jwks

\* a mutation of validate_jwt_token: the payload is cached before the scopes
\* are looked at
ValidateJwtTokenCachedEarly(token, cache, jwks, fetch_ok, t) ==
    LET hit == \E e \in Live(cache, t, token_cache_ttl) : e.token = token
        verdict ==
            IF hit THEN Claims(TRUE)
            ELSE IF ~JwksAvailable(jwks, fetch_ok, t) THEN Http(500)
            ELSE IF ~token.sig THEN Http(401)
            ELSE IF t > token.exp THEN Http(401)
            ELSE IF ~token.iss THEN Http(401)
            ELSE IF token.aud = "bad" THEN Http(401)
            ELSE IF ~token.scopes THEN Http(403)
            ELSE Claims(FALSE)
    IN  [verdict |-> verdict,
         cache |-> IF verdict \in {Claims(FALSE), Http(403)}
                   THEN Insert(cache, token, t, token_cache_ttl) ELSE cache,
         jwks |-> IF hit THEN jwks ELSE JwksAfter(jwks, fetch_ok, t)]

\* validate_jwt_token at time t: what it raises or returns, and the caches after
ValidateJwtToken(token, cache, jwks, fetch_ok, t) ==
    LET hit == \E e \in Live(cache, t, token_cache_ttl) : e.token = token
        verdict ==
            IF hit THEN Claims(TRUE)
            ELSE IF ~JwksAvailable(jwks, fetch_ok, t) THEN Http(500)
            ELSE IF ~token.sig THEN Http(401)
            ELSE IF t > token.exp THEN Http(401)
            ELSE IF ~token.iss THEN Http(401)
            ELSE IF token.aud = "bad" THEN Http(401)
            ELSE IF ~token.scopes THEN Http(403)
            ELSE Claims(FALSE)
    IN  [verdict |-> verdict,
         cache |-> IF verdict = Claims(FALSE)
                   THEN Insert(cache, token, t, token_cache_ttl) ELSE cache,
         jwks |-> IF hit THEN jwks ELSE JwksAfter(jwks, fetch_ok, t)]

\* the Authorization header: absent, of another scheme, or "Bearer <token>"
Authorization(kind, token) == [kind |-> kind, token |-> token]

Headers ==
    {Authorization("none", TokForged), Authorization("basic", TokForged)}
    \cup {Authorization("bearer", token) : token \in Tokens}

\* authenticate_request
AuthenticateRequest(authorization, cache, jwks, fetch_ok, t) ==
    IF authorization.kind # "bearer"
    THEN [verdict |-> Http(401), cache |-> cache, jwks |-> jwks]
    ELSE ValidateJwtToken(authorization.token, cache, jwks, fetch_ok, t)

\* a mutation of verify_token: the audience of the introspection response is
\* not looked at
VerifyTokenAnyAudience(token, cache, endpoint_ok, t) ==
    LET hit == \E e \in Live(cache, t, cache_ttl) : e.token = token
        is_expired == t >= token.exp
        kept == IF hit /\ is_expired THEN {e \in cache : e.token # token} ELSE cache
        active == token.sig /\ t < token.exp
        verdict ==
            IF hit /\ ~is_expired THEN "cached"
            ELSE IF ~endpoint_ok \/ ~active THEN "None"
            ELSE IF ~token.scopes THEN "None"
            ELSE "verified"
    IN  [verdict |-> verdict,
         cache |-> IF verdict = "verified" THEN Insert(kept, token, t, cache_ttl) ELSE kept]

\* TokenIntrospectionVerifier.verify_token at time t; endpoint_ok is whether
\* the introspection endpoint answers, and the issuer reports a token active
\* while its signature is good and its exp is ahead
VerifyToken(token, cache, endpoint_ok, t) ==
    LET hit == \E e \in Live(cache, t, cache_ttl) : e.token = token
        is_expired == t >= token.exp
        kept == IF hit /\ is_expired THEN {e \in cache : e.token # token} ELSE cache
        active == token.sig /\ t < token.exp
        verdict ==
            IF hit /\ ~is_expired THEN "cached"
            ELSE IF ~endpoint_ok \/ ~active THEN "None"
            ELSE IF token.aud # "ok" THEN "None"
            ELSE IF ~token.scopes THEN "None"
            ELSE "verified"
    IN  [verdict |-> verdict,
         cache |-> IF verdict = "verified" THEN Insert(kept, token, t, cache_ttl) ELSE kept]

------------------------------------------------------------------------------
(* Token verification as a state machine *)

notTokenVars == <<yaml_policy, enforcer, lastCheck, servers, routed, auth_enabled, exchange,
                  reloadVars, oauthVars, restVars, flight>>

InitTokens ==
    /\ yaml_policy = DefaultPolicy
    /\ enforcer = SyncYamlToCasbin(DefaultPolicy)
    /\ lastCheck = NoCheck
    /\ servers = DefaultServers
    /\ routed = NoRoute
    /\ AuthAtRest
    /\ ReloadAtRest
    /\ OauthAtRest
    /\ RestAtRest
    /\ flight = NoFlight

\* time passes
Tick ==
    /\ now + 100 <= MaxTime
    /\ now' = now + 100
    /\ UNCHANGED <<yaml_policy, enforcer, lastCheck, servers, routed, auth_enabled,
                   token_cache, jwks_cache, intro_cache, verified, exchange, reloadVars,
                   oauthVars, restVars, flight>>

\* authenticate_request is handed a header: the JWKS path
AuthenticateRequestCall(authorization, fetch_ok) ==
    LET auth == AuthenticateRequest(authorization, token_cache, jwks_cache, fetch_ok, now)
    IN  /\ token_cache' = auth.cache
        /\ jwks_cache' = auth.jwks
        /\ verified' = [valid |-> TRUE, path |-> "jwks", token |-> authorization.token.id,
                        past_exp |-> authorization.kind = "bearer"
                                     /\ now > authorization.token.exp,
                        verdict |-> auth.verdict.kind, cached |-> auth.verdict.cached,
                        answered |-> JwksAvailable(jwks_cache, fetch_ok, now), at |-> now]
        /\ UNCHANGED <<now, intro_cache>>
        /\ UNCHANGED notTokenVars

\* verify_token is handed a token: the introspection path
VerifyTokenCall(token, endpoint_ok) ==
    LET v == VerifyToken(token, intro_cache, endpoint_ok, now)
    IN  /\ intro_cache' = v.cache
        /\ verified' = [valid |-> TRUE, path |-> "introspection", token |-> token.id,
                        past_exp |-> now > token.exp,
                        verdict |-> IF v.verdict = "None" THEN "None" ELSE "claims",
                        cached |-> v.verdict = "cached", answered |-> endpoint_ok,
                        at |-> now]
        /\ UNCHANGED <<now, token_cache, jwks_cache>>
        /\ UNCHANGED notTokenVars

AuthenticateRequestStep ==
    \E authorization \in Headers, fetch_ok \in BOOLEAN :
        AuthenticateRequestCall(authorization, fetch_ok)

VerifyTokenStep ==
    \E token \in Tokens, endpoint_ok \in BOOLEAN : VerifyTokenCall(token, endpoint_ok)

NextTokens == Tick \/ AuthenticateRequestStep \/ VerifyTokenStep

SpecTokens == InitTokens /\ [][NextTokens]_vars

\* C5: no verification made after a token's exp returns the token's claims,
\* on the JWKS path and on the introspection path, and no cache holds an entry
\* a lookup still finds once the token's exp is past: an entry lives at most
\* min(cache TTL, remaining lifetime of the token).
C5_NoClaimsAfterExpiry ==
    /\ (verified.valid /\ verified.past_exp) => verified.verdict # "claims"
    /\ \A e \in Live(token_cache, now, token_cache_ttl) : now <= e.token.exp
    /\ \A e \in Live(intro_cache, now, cache_ttl) : now <= e.token.exp

------------------------------------------------------------------------------
(* POST /mcp: the JSON-RPC front end *)

\* what the list handlers gather from the calls they made, one per server
Listed(action, names, calls) ==
    Out("list", {<<action, names[i], <<>>>> : i \in DOMAIN calls},
        UNION {calls[i].upstream : i \in DOMAIN calls},
        UNION {calls[i].audit : i \in DOMAIN calls}, NoBroadcast)

ListFrom(registry, action, names, ups) ==
    Listed(action, names,
           [i \in 1..Len(names) |-> ProxyCall(registry, action, names[i], <<>>, ups[i])])

\* handle_list_tools, handle_list_resources and handle_list_prompts: every
\* enabled server is asked in turn, a failing one is skipped
HandleList(registry, action, ups) ==
    ListFrom(registry, action, ListOf(GetEnabledServers(registry)), ups)

Str(s) == Method("str", s)

NotificationsPrefix == <<"notifications", "/">>

\* a request: its body (a JSON object, JSON of another type, or text that is
\* no JSON), its id member (None where absent), its method, the
\* Authorization header, params.name or params.uri, and what the environment
\* does while it is served (the JWKS fetch, the upstream calls)
Request(body, id, method, authorization, name, fetch_ok, ups) ==
    [body |-> body, id |-> id, method |-> method, authorization |-> authorization,
     name |-> name, fetch_ok |-> fetch_ok, ups |-> ups]

\* authentication not attempted
NotConsulted(cache, jwks) ==
    [verdict |-> [kind |-> "skipped", status |-> 0, cached |-> FALSE],
     cache |-> cache, jwks |-> jwks]

\* what mcp_endpoint answers and causes: the response, whether the
\* authenticator was consulted, the aggregator handlers invoked and their
\* outcome, and the caches after
Served(response, auth, handlers, out) ==
    [response |-> response, consulted |-> auth.verdict.kind # "skipped",
     handlers |-> handlers, out |-> out, cache |-> auth.cache, jwks |-> auth.jwks]

\* the dispatch of mcp_endpoint on the method, once authentication is passed
Dispatch(req, registry, auth, is_notification) ==
    LET m == req.method.s
        answer(handler, out) == Served(Response(200, "result", 0, <<>>), auth, {handler}, out)
    IN  IF req.method.kind # "str" THEN Served(Response(200, "error", -32601, <<"Method not found">>), auth, {}, NoOut)
        ELSE IF m = <<"initialize">> THEN Served(Response(200, "result", 0, <<>>), auth, {}, NoOut)
        ELSE IF m = <<"tools", "/", "list">>
             THEN answer("handle_list_tools", HandleList(registry, "list_tools", req.ups))
        ELSE IF m = <<"tools", "/", "call">>
             THEN answer("handle_call_tool",
                         HandleCallTool(registry, req.name, NoArguments, req.ups))
        ELSE IF m = <<"resources", "/", "list">>
             THEN answer("handle_list_resources",
                         HandleList(registry, "list_resources", req.ups))
        ELSE IF m = <<"resources", "/", "read">>
             THEN answer("handle_read_resource",
                         HandleReadResource(registry, req.name, req.ups))
        ELSE IF m = <<"prompts", "/", "list">>
             THEN answer("handle_list_prompts", HandleList(registry, "list_prompts", req.ups))
        ELSE IF m = <<"prompts", "/", "get">>
             THEN answer("handle_get_prompt", HandleGetPrompt(registry, req.name, req.ups))
        ELSE IF is_notification THEN Served(Response(200, "empty", 0, <<>>), auth, {}, NoOut)
        ELSE Served(Response(200, "error", -32601, <<"Method not found">>), auth, {}, NoOut)

\* mcp_endpoint once the request is parsed and the authenticator, if
\* consulted, has given its verdict
Answer(req, registry, auth, is_notification) ==
    IF auth.verdict.kind = "http"
    THEN Served(Response(401, "challenge", 0, <<"invalid_token">>), auth, {}, NoOut)
    ELSE Dispatch(req, registry, auth, is_notification)

\* the method is a string that starts with notifications/
IsNotification(method) ==
    /\ method.kind = "str" /\ method.s # <<>>
    /\ StartsWith(method.s, NotificationsPrefix)

\* the methods served without authentication
Exempt(method) ==
    (method.kind = "str" /\ method.s = <<"initialize">>) \/ IsNotification(method)

\* mcp_endpoint at time t. request.json() raises on a body that is no JSON,
\* and a method that is no string has no startswith to call: the outer
\* except answers -32603. A JSON body that is no object has no get: the
\* outer except is entered and raises again on body.get("id"), so the
\* exception leaves the handler and the server answers 500
McpEndpoint(req, auth_on, registry, cache, jwks, t) ==
    IF req.body = "nonobject"
    THEN Served(Response(500, "server_error", 0, <<>>), NotConsulted(cache, jwks), {}, NoOut)
    ELSE IF req.body = "unparseable" \/ req.method.kind = "other"
    THEN Served(Response(200, "error", -32603, <<"str(e)">>), NotConsulted(cache, jwks),
                {}, NoOut)
    ELSE Answer(req, registry,
                IF auth_on /\ ~Exempt(req.method)
                THEN AuthenticateRequest(req.authorization, cache, jwks, req.fetch_ok, t)
                ELSE NotConsulted(cache, jwks),
                IsNotification(req.method))

------------------------------------------------------------------------------
(* The front end as a state machine *)

\* the policy document of the gateway: developers may do anything, no tool
\* whose name starts with admin_ may be invoked, and the default is deny
GatewayPolicy ==
    [roles |-> {<<"dev", <<Perm(Star, <<"*">>)>>>>},
     user_roles |-> {<<"alice", <<"dev">>>>, <<"anonymous", <<"dev">>>>},
     group_roles |-> {},
     rules |-> <<Rule(AllKeys, "deny_admin", 100, "deny",
                      Cond({"tool_name_pattern"}, "", "", <<>>, <<"^", "admin", "_", ".*">>))>>,
     default_policy |-> "deny"]

PlainMethods ==
    {Str(<<"initialize">>), Str(<<"notifications", "/", "initialized">>),
     Str(<<"notifications">>), Str(<<"bogus">>), Method("none", <<>>), Method("other", <<>>)}

ListMethods ==
    {Str(<<"tools", "/", "list">>), Str(<<"resources", "/", "list">>),
     Str(<<"prompts", "/", "list">>)}

ToolsCall == Str(<<"tools", "/", "call">>)

NamedMethods == {ToolsCall, Str(<<"resources", "/", "read">>), Str(<<"prompts", "/", "get">>)}

AdminReset == <<"s1", "_", "_", "admin", "_", "reset">>

\* the names sent with a method that takes one
SentNames(method) ==
    {<<"s1", "_", "_", "echo">>, <<"echo">>}
    \cup (IF method = ToolsCall THEN {AdminReset, BroadcastPrefix \o Echo} ELSE {})

\* a header, and whether the JWKS endpoint answers; the latter is of
\* consequence for bearer tokens alone
HeadersAndFetch ==
    {<<h, TRUE>> : h \in Headers} \cup {<<Authorization("bearer", TokGood), FALSE>>}

AllOk == [i \in 1..MaxTargets |-> "ok"]

\* the id members sent: absent, or a value
Ids == {None, "7"}

Requests ==
    {Request(body, None, Method("none", <<>>), h, <<>>, TRUE, AllOk) :
        body \in {"unparseable", "nonobject"}, h \in Headers}
    \cup {Request("object", id, m, hf[1], <<>>, hf[2], AllOk) :
            id \in Ids, m \in PlainMethods, hf \in HeadersAndFetch}
    \cup {Request("object", "7", m, hf[1], <<>>, hf[2], ups) :
            m \in ListMethods, hf \in HeadersAndFetch, ups \in SameUps}
    \cup UNION {{Request("object", "7", m, hf[1], name, hf[2], ups) :
                    name \in SentNames(m), hf \in HeadersAndFetch, ups \in SameUps} :
                m \in NamedMethods}

\* a bearer token that is valid at time t: well signed, not past its exp,
\* from a trusted issuer, for an accepted audience, with the required scopes
BearerValid(authorization, t) ==
    /\ authorization.kind = "bearer"
    /\ authorization.token.sig /\ t <= authorization.token.exp
    /\ authorization.token.iss /\ authorization.token.aud # "bad"
    /\ authorization.token.scopes

InitFrontEnd ==
    /\ yaml_policy = GatewayPolicy
    /\ enforcer = SyncYamlToCasbin(GatewayPolicy)
    /\ lastCheck = NoCheck
    /\ servers = DefaultServers
    /\ routed = NoRoute
    /\ now = 0
    /\ auth_enabled \in BOOLEAN
    /\ token_cache = {}
    /\ jwks_cache = NoJwks
    /\ intro_cache = {}
    /\ verified = NoVerify
    /\ exchange = NoExchange
    /\ ReloadAtRest
    /\ OauthAtRest
    /\ RestAtRest
    /\ flight = NoFlight

\* a response that carries "id": null whatever the request's id
ResponseIdNull(req, response) ==
    IF response.kind \notin {"result", "error"} THEN "absent" ELSE None

\* the id member of the response: a JSON-RPC result or error carries
\* body.get("id"), and None where the body did not parse; the challenge, the
\* {} of a notification and the server error carry none
ResponseId(req, response) ==
    IF response.kind \notin {"result", "error"} THEN "absent"
    ELSE IF req.body = "unparseable" THEN None
    ELSE req.id

\* the response is sent: the exchange is on record, the caches are as the
\* authenticator left them
Respond(req, served) ==
    /\ exchange' =
          [valid |-> TRUE, body |-> req.body, request_id |-> req.id,
           response_id |-> ResponseId(req, served.response), method |-> req.method,
           header |-> req.authorization.kind, token |-> req.authorization.token.id,
           name |-> req.name, bearer_valid |-> BearerValid(req.authorization, now),
           consulted |-> served.consulted, response |-> served.response,
           handlers |-> served.handlers, out |-> served.out,
           subject |-> IF served.consulted THEN req.authorization.token.sub
                       ELSE "anonymous"]
    /\ token_cache' = served.cache
    /\ jwks_cache' = served.jwks
    /\ UNCHANGED <<yaml_policy, enforcer, lastCheck, servers, routed, now, auth_enabled,
                   intro_cache, verified, reloadVars, oauthVars, restVars, flight>>

\* a POST /mcp is served
PostMcp(req) ==
    Respond(req, McpEndpoint(req, auth_enabled, servers, token_cache, jwks_cache, now))

PostMcpStep == \E req \in Requests : PostMcp(req)

NextFrontEnd == Tick \/ PostMcpStep

SpecFrontEnd == InitFrontEnd /\ [][NextFrontEnd]_vars

\* the method is initialize or its name starts with notifications/
ExemptMethod(method) ==
    /\ method.kind = "str"
    /\ method.s = <<"initialize">> \/ StartsWith(method.s, NotificationsPrefix)

\* C1: with auth enabled, a POST /mcp that carries no valid bearer token is
\* answered with HTTP 200 without the authenticator being consulted when its
\* method is initialize or starts with notifications/, and with the 401
\* challenge without any aggregator handler being invoked for every other
\* method, unknown and missing ones included.
C1_NoBearerNoService ==
    (exchange.valid /\ auth_enabled /\ ~exchange.bearer_valid) =>
        IF ExemptMethod(exchange.method)
        THEN exchange.response.status = 200 /\ ~exchange.consulted
        ELSE /\ exchange.response.status = 401
             /\ exchange.response.kind = "challenge"
             /\ exchange.handlers = {}

\* the decision of the policy engine for the tool call of the latest request
ToolCallDecision ==
    CheckPermission(yaml_policy, enforcer, exchange.subject,
                    <<"mcp", ":">> \o ServerPart(exchange.name) \o <<":">>
                        \o ItemPart(exchange.name),
                    "invoke_tool", Groups(FALSE, <<>>))

\* C2: a tools/call whose policy decision for (subject, mcp:<server>:<tool>,
\* invoke_tool) is deny reaches no upstream, is answered with the JSON-RPC
\* error -32603 carrying the policy reason, and leaves a policy_violation
\* audit event.
C2_DeniedToolCallReachesNoUpstream ==
    ( /\ exchange.valid /\ exchange.method = ToolsCall
      /\ exchange.response.status # 401
      /\ Find(exchange.name, Sep) > 0 /\ ~StartsWith(exchange.name, BroadcastPrefix)
      /\ ToolCallDecision.kind = "return" /\ ~ToolCallDecision.allowed )
    => /\ exchange.out.upstream = {}
       /\ exchange.response.kind = "error" /\ exchange.response.code = -32603
       /\ exchange.response.message = ToolCallDecision.reason
       /\ \E e \in exchange.out.audit : e.event_type = "policy_violation"

\* the token of the model with the given id
TokenOf(id) == CHOOSE token \in Tokens : token.id = id

\* C13: with auth enabled, a bearer token on POST /mcp whose signature, issuer
\* and audience are valid but which lacks a required scope is answered with
\* HTTP 403, and a token that fails signature, issuer or audience validation
\* with HTTP 401.
C13_MissingScopeIs403 ==
    ( /\ exchange.valid /\ auth_enabled /\ exchange.consulted
      /\ exchange.header = "bearer" )
    => /\ ( /\ TokenOf(exchange.token).sig /\ TokenOf(exchange.token).iss
            /\ TokenOf(exchange.token).aud # "bad" /\ now <= TokenOf(exchange.token).exp
            /\ ~TokenOf(exchange.token).scopes )
          => exchange.response.status = 403
       /\ ( \/ ~TokenOf(exchange.token).sig \/ ~TokenOf(exchange.token).iss
            \/ TokenOf(exchange.token).aud = "bad" )
          => exchange.response.status = 401

\* the methods of the dispatch table
DispatchTable ==
    {<<"initialize">>} \cup {m.s : m \in ListMethods} \cup {m.s : m \in NamedMethods}

\* the request passed authentication, or came with auth disabled
PassedAuth == ~auth_enabled \/ (exchange.consulted /\ exchange.response.status # 401)

C15_BadEnvelopeIsParseError ==
    (exchange.valid /\ exchange.body \in {"unparseable", "nonobject"})
    => /\ exchange.response.kind = "error"
       /\ exchange.response.code = -32700

\* what validate_jwt_token asks of a token: the signature verifies with the
\* JWKS key of the token's kid, the issuer is an accepted one, the audience,
\* when the token has one, is an accepted one, and the required scopes are there
PassesJwtChecks(token) ==
    token.sig /\ token.iss /\ token.aud # "bad" /\ token.scopes

PassesIntrospection(token, t) ==
    /\ token.sig /\ t < token.exp
    /\ token.aud = "ok"
    /\ token.scopes

------------------------------------------------------------------------------
(* Reload of the registry, with a reader alongside *)

\* the config file by what yaml.safe_load makes of it: missing, malformed,
\* empty (None), or a mapping with or without the key servers
ConfigFile(kind, keys, map) == [kind |-> kind, keys |-> keys, servers |-> map]

\* the registry _load_config writes where the file is missing
DefaultConfig ==
    { <<(<<"default">>),
        ServerConfig({"url", "type", "timeout", "enabled", "auth"}, TRUE, <<>>, <<>>)>> }

\* an edited registry: s1 with other tags, s2 gone, s3 new
EditedServers ==
    { <<(<<"s1">>), ServerConfig({"url", "tags", "tools"}, TRUE, <<(<<"prod">>)>>, <<(<<"echo">>)>>)>>,
      <<(<<"s3">>), ServerConfig({"url", "enabled"}, TRUE, <<>>, <<>>)>> }

ConfigFiles ==
    { ConfigFile("missing", {}, {}), ConfigFile("malformed", {}, {}),
      ConfigFile("empty", {}, {}), ConfigFile("mapping", {}, {}),
      ConfigFile("mapping", {"servers"}, DefaultServers),
      ConfigFile("mapping", {"servers"}, EditedServers) }

\* data.get('servers', {}) if data else {}
ServersOf(data) ==
    IF data.kind = "mapping" /\ data.keys # {} THEN Get(data, "servers", {}) ELSE {}

\* the registry is assigned: a read under way had it as its old snapshot or
\* has it as its new one
Assigned(map) ==
    /\ servers' = map
    /\ reader' = IF reader.pc = "iterating"
                 THEN [reader EXCEPT !.candidates = @ \cup {map},
                                     !.during = @ \/ (reader.seen # {} /\ reader.seen # reader.bound)]
                 ELSE reader

\* _load_config up to the parse: a missing file makes the default registry, a
\* malformed one raises out of yaml.safe_load, any other is parsed into data
LoadConfig(file) ==
    /\ loader.pc = "idle"
    /\ IF file.kind = "missing"
       THEN Assigned(DefaultConfig) /\ UNCHANGED loader
       ELSE IF file.kind = "malformed"
       THEN UNCHANGED <<servers, reader, loader>>
       ELSE loader' = [pc |-> "parsed", data |-> file] /\ UNCHANGED <<servers, reader>>
    /\ UNCHANGED <<polVars, routed, authVars, oauthVars, restVars, flight>>

\* _load_config after the parse: the one assignment to self.servers
AssignServers ==
    /\ loader.pc = "parsed"
    /\ Assigned(ServersOf(loader.data))
    /\ loader' = NoLoad
    /\ UNCHANGED <<polVars, routed, authVars, oauthVars, restVars, flight>>

\* a loop that looks self.servers up anew for every item
IteratedLive(bound, live) == live

\* the dict a loop over self.servers.items() goes through: the one that was
\* bound when the loop began
Iterated(bound, live) == bound

\* a reader begins: get_enabled_servers, get_servers_by_tags or
\* get_servers_with_tool evaluate self.servers.items()
ReadBegin ==
    /\ reader.pc \in {"idle", "done"}
    /\ reader' = [pc |-> "iterating", bound |-> servers, seen |-> {},
                  candidates |-> {servers}, during |-> FALSE]
    /\ UNCHANGED <<polVars, servers, routed, authVars, loader, oauthVars, restVars, flight>>

\* the loop takes its next item
ReadItem ==
    /\ reader.pc = "iterating"
    /\ \E item \in Iterated(reader.bound, servers) \ reader.seen :
            reader' = [reader EXCEPT !.seen = @ \cup {item}]
    /\ UNCHANGED <<polVars, servers, routed, authVars, loader, oauthVars, restVars, flight>>

\* the loop ends
ReadEnd ==
    /\ reader.pc = "iterating"
    /\ Iterated(reader.bound, servers) \ reader.seen = {}
    /\ reader' = [reader EXCEPT !.pc = "done"]
    /\ UNCHANGED <<polVars, servers, routed, authVars, loader, oauthVars, restVars, flight>>

LoadConfigStep == \E file \in ConfigFiles : LoadConfig(file)

NextReload == LoadConfigStep \/ AssignServers \/ ReadBegin \/ ReadItem \/ ReadEnd

SpecReload == InitNames /\ [][NextReload]_vars

\* C7: a read of the registry that a reload runs alongside has seen, when it
\* ends, the complete map that was there before an assignment or the complete
\* map an assignment put there, and before it ends no item from outside of
\* one such map.
C7_ReadSeesOldOrNew ==
    /\ reader.pc = "iterating" => \E map \in reader.candidates : reader.seen \subseteq map
    /\ reader.pc = "done" => reader.seen \in reader.candidates

\* a read has ended that was part-way through when the registry was assigned
\* another map
C7_Witness ==
    /\ reader.pc = "done" /\ reader.during
    /\ reader.seen # {} /\ servers # reader.seen

------------------------------------------------------------------------------
(* OAuth discovery: the 401 challenge and the protected-resource document *)

McpPath == <<"/", "mcp">>

WellKnownProtectedResource == <<"/", ".well-known", "/", "oauth-protected-resource">>

\* the paths main.py mounts that answer a GET with the protected-resource
\* document
ProtectedResourceRoutes == {WellKnownProtectedResource, WellKnownProtectedResource \o McpPath}

\* http://localhost:8080/realms/{keycloak_realm}
KeycloakBase == <<"http:", "/", "/", "localhost:8080", "/", "realms", "/", "mcp-gateway">>

\* str.endswith
EndsWith(s, p) == Len(p) <= Len(s) /\ SubSeq(s, Len(s) - Len(p) + 1, Len(s)) = p

\* the base the gateway is served on: the resource-server URL is the URL of
\* POST /mcp, which the router mounts at /mcp on that base
GatewayBase(url) ==
    IF EndsWith(url, McpPath) THEN SubSeq(url, 1, Len(url) - Len(McpPath)) ELSE url

\* resource_metadata_url of build_oauth_error_response
ResourceMetadataUrl(resource_server_url) ==
    Replace(resource_server_url, McpPath) \o WellKnownProtectedResource

\* build_oauth_error_response; error_description is None or a text
BuildOauthErrorResponse(resource_server_url, error, error_description) ==
    [kind |-> "challenge", status |-> 401,
     keys |-> {"error", "error_description", "oauth2_metadata"},
     error |-> error,
     error_description |-> IF error_description # None THEN error_description
                           ELSE "Bearer token required for authentication",
     resource |-> resource_server_url,
     authorization_servers |-> <<KeycloakBase>>,
     www_authenticate |-> {"realm", "resource_metadata"}
                          \cup (IF error # "" THEN {"error"} ELSE {})
                          \cup (IF error_description # None THEN {"error_description"} ELSE {}),
     resource_metadata |-> ResourceMetadataUrl(resource_server_url)]

\* oauth_protected_resource_metadata
OauthProtectedResourceMetadata(resource_server_url) ==
    [kind |-> "document", status |-> 200,
     keys |-> {"resource", "authorization_servers", "bearer_methods_supported",
               "resource_signing_alg_values_supported", "resource_documentation",
               "scopes_supported", "resource_capabilities", "mcp_version",
               "public_clients_supported", "authorization_code_flow_supported"},
     error |-> "", error_description |-> "",
     resource |-> resource_server_url,
     authorization_servers |-> <<KeycloakBase>>,
     www_authenticate |-> {}, resource_metadata |-> <<>>]

\* the longest host name, in labels
MaxLabels == 2

Labels == {<<"gw">>, <<"mcp">>}

\* host names of up to n labels
RECURSIVE Hosts(_)
Hosts(n) ==
    IF n = 1 THEN Labels
    ELSE Hosts(n - 1) \cup {h \o <<".">> \o l : h \in Hosts(n - 1), l \in Labels}

\* the bases a gateway is deployed on: a host, with or without a path prefix
GatewayBases ==
    {<<"http:", "/", "/">> \o h \o prefix :
        h \in Hosts(MaxLabels), prefix \in {<<>>, <<"/", "api">>, <<"/", "mcp", "-gateway">>}}

\* the values of MCP_RESOURCE_SERVER_URL: the URL of POST /mcp on the base
ResourceServerUrls ==
    {DefaultResourceServerUrl} \cup {base \o McpPath : base \in GatewayBases}

InitDiscovery ==
    /\ yaml_policy = DefaultPolicy
    /\ enforcer = SyncYamlToCasbin(DefaultPolicy)
    /\ lastCheck = NoCheck
    /\ servers = DefaultServers
    /\ routed = NoRoute
    /\ AuthAtRest
    /\ ReloadAtRest
    /\ mcp_resource_server_url \in ResourceServerUrls
    /\ discovery = NoDiscovery
    /\ RestAtRest
    /\ flight = NoFlight

\* a 401 challenge is built
Challenge(error, error_description) ==
    /\ discovery' = BuildOauthErrorResponse(mcp_resource_server_url, error, error_description)
    /\ UNCHANGED <<polVars, servers, routed, authVars, reloadVars, mcp_resource_server_url,
                   restVars, flight>>

\* GET of a protected-resource route
GetProtectedResource(path) ==
    /\ path \in ProtectedResourceRoutes
    /\ discovery' = [OauthProtectedResourceMetadata(mcp_resource_server_url)
                        EXCEPT !.resource_metadata = GatewayBase(mcp_resource_server_url) \o path]
    /\ UNCHANGED <<polVars, servers, routed, authVars, reloadVars, mcp_resource_server_url,
                   restVars, flight>>

ChallengeStep ==
    \E error \in {"invalid_token", "unauthorized"},
       error_description \in {None, "Token has expired"} :
        Challenge(error, error_description)

GetProtectedResourceStep == \E path \in ProtectedResourceRoutes : GetProtectedResource(path)

NextDiscovery == ChallengeStep \/ GetProtectedResourceStep

SpecDiscovery == InitDiscovery /\ [][NextDiscovery]_vars

\* C11: for every configured resource-server URL, the resource_metadata URL
\* of the 401 challenge is GET /.well-known/oauth-protected-resource on the
\* gateway base, and the document that route serves has a non-empty
\* authorization_servers list.
C11_ResourceMetadataResolves ==
    /\ discovery.kind = "challenge" =>
          discovery.resource_metadata =
              GatewayBase(mcp_resource_server_url) \o WellKnownProtectedResource
    /\ discovery.kind = "document" => discovery.authorization_servers # <<>>

------------------------------------------------------------------------------
(* The bearer-protected REST routes *)

\* AuthService.validate_token at time t: a cache hit, else the key set, the
\* signature and the exp; every failure leaves as a 401
ValidateToken(token, cache, jwks, fetch_ok, t) ==
    LET hit == \E e \in Live(cache, t, token_cache_ttl) : e.token = token
        ok == JwksAvailable(jwks, fetch_ok, t) /\ token.sig /\ t <= token.exp
    IN  [verdict |-> IF hit THEN Claims(TRUE) ELSE IF ok THEN Claims(FALSE) ELSE Http(401),
         cache |-> IF ~hit /\ ok THEN Insert(cache, token, t, token_cache_ttl) ELSE cache,
         jwks |-> IF hit THEN jwks ELSE JwksAfter(jwks, fetch_ok, t)]

\* the HTTPException of the given status as FastAPI sends it: {"detail": ...}
\* and the headers of the exception, of which these have none
Detail(status) == Outcome("http", status, {"detail"}, {}, "")

\* get_current_user, called with the credentials of a bearer header
GetCurrentUser(token, auth_on, cache, jwks, fetch_ok, t) ==
    IF ~auth_on
    THEN [outcome |-> Outcome("user", 0, {}, {}, "anonymous"), cache |-> cache, jwks |-> jwks]
    ELSE [outcome |-> IF ValidateToken(token, cache, jwks, fetch_ok, t).verdict.kind = "claims"
                      THEN Outcome("user", 0, {}, {}, token.sub)
                      ELSE Detail(401),
          cache |-> ValidateToken(token, cache, jwks, fetch_ok, t).cache,
          jwks |-> ValidateToken(token, cache, jwks, fetch_ok, t).jwks]

\* get_optional_user: HTTPBearer(auto_error=False) yields no credentials for
\* an absent header and for another scheme
GetOptionalUser(authorization, auth_on, cache, jwks, fetch_ok, t) ==
    IF authorization.kind # "bearer"
    THEN [outcome |-> Outcome("user", 0, {}, {}, None), cache |-> cache, jwks |-> jwks]
    ELSE GetCurrentUser(authorization.token, auth_on, cache, jwks, fetch_ok, t)

\* get_user_conditional, given what get_optional_user came to
UserOrRaise(auth_on, optional) ==
    IF optional.outcome.kind = "http" THEN optional
    ELSE IF ~auth_on
    THEN [optional EXCEPT !.outcome = Outcome("user", 0, {}, {}, "anonymous")]
    ELSE IF optional.outcome.user = None THEN [optional EXCEPT !.outcome = Detail(401)]
    ELSE optional

\* get_user_conditional with its dependency
GetUserConditional(authorization, auth_on, cache, jwks, fetch_ok, t) ==
    UserOrRaise(auth_on, GetOptionalUser(authorization, auth_on, cache, jwks, fetch_ok, t))

\* the routes that depend on get_user_conditional
RestRoutes ==
    {"GET /tools", "POST /tools/{tool_name}/invoke", "GET /mcp/servers",
     "POST /mcp/invoke-broadcast"}

\* the dependency has run for a request to the route
Resolved(route, authorization, resolved) ==
    /\ rest_exchange' = [valid |-> TRUE, route |-> route, header |-> authorization.kind,
                         token |-> authorization.token.id, outcome |-> resolved.outcome]
    /\ auth_token_cache' = resolved.cache
    /\ auth_jwks_cache' = resolved.jwks
    /\ UNCHANGED <<polVars, servers, routed, authVars, reloadVars, oauthVars, flight>>

\* a request to a REST route reaches get_user_conditional
RestRequest(route, authorization, fetch_ok) ==
    Resolved(route, authorization,
             GetUserConditional(authorization, auth_enabled, auth_token_cache,
                                auth_jwks_cache, fetch_ok, now))

\* the headers sent to the REST routes, and whether the JWKS endpoint answers
RestHeadersAndFetch ==
    {<<Authorization("none", TokForged), TRUE>>, <<Authorization("basic", TokForged), TRUE>>,
     <<Authorization("bearer", TokForged), TRUE>>, <<Authorization("bearer", TokGood), TRUE>>,
     <<Authorization("bearer", TokGood), FALSE>>}

RestRequestStep ==
    \E route \in RestRoutes, hf \in RestHeadersAndFetch : RestRequest(route, hf[1], hf[2])

\* the POST /mcp requests sent alongside: an unknown method under each header
ChallengedRequests ==
    {Request("object", "7", Str(<<"bogus">>), hf[1], <<>>, hf[2], AllOk) :
        hf \in HeadersAndFetch}

PostMcpBogusStep == \E req \in ChallengedRequests : PostMcp(req)

NextChallenge == RestRequestStep \/ PostMcpBogusStep

SpecChallenge == InitFrontEnd /\ [][NextChallenge]_vars

\* the response carries the OAuth challenge document
IsChallenge(keys, www_authenticate) ==
    /\ {"error", "error_description", "oauth2_metadata"} \subseteq keys
    /\ "resource_metadata" \in www_authenticate

\* the 401 of POST /mcp as build_oauth_error_response makes it
ChallengeSent ==
    BuildOauthErrorResponse(mcp_resource_server_url, "invalid_token", "str(auth_error.detail)")

\* C12: every HTTP 401 the gateway answers, on POST /mcp and on the
\* bearer-protected REST routes, carries the OAuth challenge document: a body
\* with error, error_description and oauth2_metadata, and a WWW-Authenticate
\* header that names resource_metadata.
C12_Every401IsAChallenge ==
    /\ (exchange.valid /\ exchange.response.status = 401) =>
          /\ exchange.response.kind = "challenge"
          /\ IsChallenge(ChallengeSent.keys, ChallengeSent.www_authenticate)
    /\ (rest_exchange.valid /\ rest_exchange.outcome.status = 401) =>
          IsChallenge(rest_exchange.outcome.keys, rest_exchange.outcome.www_authenticate)

------------------------------------------------------------------------------
(* MCPAggregatorServer: the list handlers *)

\* what an upstream does with a list call: it fails, or it returns items
Listing(ok, items) == [ok |-> ok, items |-> items]

\* the lists in the order given, joined into one
RECURSIVE Concat(_)
Concat(seqs) == IF seqs = <<>> THEN <<>> ELSE Head(seqs) \o Concat(Tail(seqs))

\* the members of a list in the order of their first occurrence: the keys of
\* a dict filled in that order
RECURSIVE Dedup(_)
Dedup(seq) ==
    IF seq = <<>> THEN <<>>
    ELSE LET front == Dedup(SubSeq(seq, 1, Len(seq) - 1))
         IN  IF seq[Len(seq)] \in Range(front) THEN front
             ELSE Append(front, seq[Len(seq)])

\* a mutation of Fetched: the items of an upstream are used although its
\* list call raised
FetchedAll(registry, action, names, answers) ==
    [i \in 1..Len(names) |-> answers[i].items]

\* the try block of the loop over the enabled servers: the items of server i
\* are those its list call returned, and none when the call raised
Fetched(registry, action, names, answers) ==
    [i \in 1..Len(names) |->
        IF ProxyCall(registry, action, names[i], <<>>,
                     IF answers[i].ok THEN "ok" ELSE "fail").kind = "return"
        THEN answers[i].items
        ELSE <<>>]

\* prefixed_name = f"{server_name}__{tool_name}", for each item in turn
Prefixed(server_name, items) == [k \in 1..Len(items) |-> server_name \o Sep \o items[k]]

\* all_tools, all_resources, all_prompts after the loop
AllItems(names, fetched) ==
    Concat([i \in 1..Len(names) |-> Prefixed(names[i], fetched[i])])

\* tools_by_name as the loop fills it: one (tool_name, server_name) entry
\* for every tool of every answer, in order
ToolsByName(names, fetched) ==
    Concat([i \in 1..Len(names) |->
                [k \in 1..Len(fetched[i]) |-> <<fetched[i][k], names[i]>>]])

\* tools_by_name[tool_name]: the server_list of a tool
ServerList(tools_by_name, tool_name) ==
    SelectSeq(tools_by_name, LAMBDA entry : entry[1] = tool_name)

\* _generate_tag_based_broadcast_tools: one tool for every tag that more
\* than one enabled server carries
GenerateTagBasedBroadcastTools(registry) ==
    LET enabled == ListOf(GetEnabledServers(registry))
        TagsOf(name) == Range(Get(GetServer(registry, name), "tags", <<>>))
        all_tags == ListOf(UNION {TagsOf(name) : name \in Range(enabled)})
        tagged == SelectSeq(all_tags, LAMBDA tag :
                     Len(SelectSeq(enabled, LAMBDA name : tag \in TagsOf(name))) > 1)
    IN  [k \in 1..Len(tagged) |-> ByTagPrefix \o tagged[k]]

\* _generate_broadcast_tools: one tool for every tool name whose server_list
\* has more than one entry, then the tag-based tools
GenerateBroadcastTools(registry, tools_by_name) ==
    LET keys == Dedup([k \in 1..Len(tools_by_name) |-> tools_by_name[k][1]])
        multi == SelectSeq(keys, LAMBDA tool_name :
                     Len(ServerList(tools_by_name, tool_name)) > 1)
    IN  [k \in 1..Len(multi) |-> BroadcastPrefix \o multi[k]]
        \o GenerateTagBasedBroadcastTools(registry)

\* the names handle_list_tools returns
ListedTools(registry, names, fetched) ==
    AllItems(names, fetched) \o GenerateBroadcastTools(registry, ToolsByName(names, fetched))

\* the names a list handler returns: handle_list_tools adds the broadcast
\* tools, handle_list_resources and handle_list_prompts add nothing
ListedNames(registry, action, names, fetched) ==
    IF action = "list_tools" THEN ListedTools(registry, names, fetched)
    ELSE AllItems(names, fetched)

------------------------------------------------------------------------------
(* Listings as a state machine *)

ListActions == {"list_tools", "list_resources", "list_prompts"}

\* the registries listed from: A and B enabled, C enabled or not; A and C
\* carry the tag logging, B carries it or not
ListingRegistries ==
    { { <<(<<"A">>), ServerConfig({"url", "tags"}, TRUE, <<(<<"logging">>)>>, <<>>)>>,
        <<(<<"B">>), ServerConfig({"url", "tags"}, TRUE, tB, <<>>)>>,
        <<(<<"C">>), ServerConfig({"url", "enabled", "tags"}, c, <<(<<"logging">>)>>, <<>>)>> } :
      tB \in {<<>>, <<(<<"logging">>)>>}, c \in BOOLEAN }

\* the items an upstream returns by name; an upstream may name an item twice
ItemLists == {<<>>, <<Echo>>, <<Echo, Echo>>, <<Echo, <<"search">>>>}

\* a failing list call: the upstream is down, or it answers and the call
\* fails after
Listings ==
    {Listing(FALSE, <<>>), Listing(FALSE, <<Echo>>)}
    \cup {Listing(TRUE, items) : items \in ItemLists}

InitListing ==
    /\ yaml_policy = DefaultPolicy
    /\ enforcer = SyncYamlToCasbin(DefaultPolicy)
    /\ lastCheck = NoCheck
    /\ servers \in ListingRegistries
    /\ routed = NoRoute
    /\ AuthAtRest
    /\ ReloadAtRest
    /\ OauthAtRest
    /\ RestAtRest
    /\ flight = NoFlight

\* tools/list, resources/list or prompts/list arrives at its handler;
\* answers[i] is what the i-th enabled server does with the list call
ListCall(action, names, answers) ==
    /\ routed' = [valid |-> TRUE, op |-> action, name |-> <<>>,
                  names |-> names, answers |-> answers,
                  listed |-> ListedNames(servers, action, names,
                                         Fetched(servers, action, names, answers)),
                  out |-> HandleList(servers, action,
                                     [i \in 1..Len(names) |->
                                         IF answers[i].ok THEN "ok" ELSE "fail"])]
    /\ UNCHANGED notRouteVars

ListToolsStep ==
    \E answers \in [1..Cardinality(GetEnabledServers(servers)) -> Listings] :
        ListCall("list_tools", ListOf(GetEnabledServers(servers)), answers)

ListResourcesStep ==
    \E answers \in [1..Cardinality(GetEnabledServers(servers)) -> Listings] :
        ListCall("list_resources", ListOf(GetEnabledServers(servers)), answers)

ListPromptsStep ==
    \E answers \in [1..Cardinality(GetEnabledServers(servers)) -> Listings] :
        ListCall("list_prompts", ListOf(GetEnabledServers(servers)), answers)

NextListing == ListToolsStep \/ ListResourcesStep \/ ListPromptsStep

SpecListing == InitListing /\ [][NextListing]_vars

\* the latest call was a listing
ListingRouted == routed.valid /\ routed.op \in ListActions

Providers(tool_name) ==
    {routed.names[i] : i \in {j \in 1..Len(routed.names) :
        routed.answers[j].ok /\ tool_name \in Range(routed.answers[j].items)}}

\* the enabled upstreams that carry the tag
Carriers(tag) == GetServersByTags(servers, <<tag>>)

\* C19: the tools/list result holds broadcast__{t} if and only if at least
\* two distinct enabled upstreams provide a tool named t, and holds
\* broadcast__by_tag__{tag} if and only if at least two enabled upstreams
\* carry the tag.
C19_BroadcastToolsIffTwoProviders ==
    (routed.valid /\ routed.op = "list_tools") =>
        /\ \A tool_name \in {Echo, <<"search">>} :
              BroadcastPrefix \o tool_name \in Range(routed.listed)
                  <=> Cardinality(Providers(tool_name)) >= 2
        /\ \A tag \in {<<"logging">>, <<"metrics">>} :
              ByTagPrefix \o tag \in Range(routed.listed)
                  <=> Cardinality(Carriers(tag)) >= 2

------------------------------------------------------------------------------
(* MCPProxy: the credential of an upstream *)

\* MCPAuthConfig: the fields _apply_authentication reads
AuthConfig(location, name, format, prefix, template, credential_ref, credential_value) ==
    [location |-> location, name |-> name, format |-> format, prefix |-> prefix,
     template |-> template, credential_ref |-> credential_ref,
     credential_value |-> credential_value]

\* what is outside the gateway when a credential is resolved: the value of
\* the environment variable if set, the content of the file if readable
World(env, file) == [env |-> env, file |-> file]

\* a call that returns a value or raises
Returned(value) == [raised |-> FALSE, value |-> value]
Raised == [raised |-> TRUE, value |-> <<>>]

Whitespace == {" ", "\n"}

\* str.strip(): leading and trailing whitespace is dropped
RECURSIVE Strip(_)
Strip(s) ==
    IF s = <<>> THEN <<>>
    ELSE IF Head(s) \in Whitespace THEN Strip(Tail(s))
    ELSE IF s[Len(s)] \in Whitespace THEN Strip(SubSeq(s, 1, Len(s) - 1))
    ELSE s

\* _resolve_credential: env://VAR, file://path; vault:// and every other
\* reference raise ValueError
ResolveCredential(credential_ref, world) ==
    IF credential_ref[1] = "env://"
    THEN IF Truthy(world.env) THEN Returned(world.env.value) ELSE Raised
    ELSE IF credential_ref[1] = "file://"
    THEN IF world.file.given THEN Returned(Strip(world.file.value)) ELSE Raised
    ELSE Raised

\* what the ValueError of _resolve_credential names
Cause(credential_ref) ==
    IF credential_ref[1] = "env://" THEN "Environment variable not found"
    ELSE IF credential_ref[1] = "file://" THEN "Failed to read credential from file"
    ELSE IF credential_ref[1] = "vault://" THEN "Vault integration not yet implemented"
    ELSE "Unknown credential reference format"

Placeholder == "{credential}"

\* template.format(credential=credential)
RECURSIVE Substitute(_, _)
Substitute(template, credential) ==
    IF template = <<>> THEN <<>>
    ELSE (IF Head(template) = Placeholder THEN credential ELSE <<Head(template)>>)
         \o Substitute(Tail(template), credential)

\* _format_credential
FormatCredential(auth_config, credential) ==
    IF auth_config.format = "raw" THEN Returned(credential)
    ELSE IF auth_config.format = "prefix" THEN Returned(auth_config.prefix \o credential)
    ELSE IF Truthy(auth_config.template)
         THEN Returned(Substitute(auth_config.template.value, credential))
    ELSE Raised

\* d[k] = v on a dict held as its items
SetItem(d, k, v) == {item \in d : item[1] # k} \cup {<<k, v>>}

\* the three request components _apply_authentication hands back
Components(headers, params, json_body) ==
    [raised |-> FALSE, headers |-> headers, params |-> params, json_body |-> json_body]

\* the last step of _apply_authentication: the formatted credential is put
\* under the configured name at the configured location
Place(auth_config, formatted, headers, params, json_body) ==
    IF formatted.raised THEN [Components({}, {}, {}) EXCEPT !.raised = TRUE]
    ELSE IF auth_config.location = "header"
    THEN Components(SetItem(headers, auth_config.name, formatted.value), params, json_body)
    ELSE IF auth_config.location = "query"
    THEN Components(headers, SetItem(params, auth_config.name, formatted.value), json_body)
    ELSE Components(headers, params, SetItem(json_body, auth_config.name, formatted.value))

\* the credential _apply_authentication uses: credential_value if truthy,
\* else the resolved credential_ref
Credential(auth_config, world) ==
    IF Truthy(auth_config.credential_value) THEN Returned(auth_config.credential_value.value)
    ELSE ResolveCredential(auth_config.credential_ref.value, world)

\* _apply_authentication
ApplyAuthentication(auth_config, world, headers, params, json_body) ==
    IF ~Truthy(auth_config.credential_value) /\ ~Truthy(auth_config.credential_ref)
    THEN Components(headers, params, json_body)
    ELSE IF Credential(auth_config, world).raised
    THEN [Components({}, {}, {}) EXCEPT !.raised = TRUE]
    ELSE Place(auth_config, FormatCredential(auth_config, Credential(auth_config, world).value),
               headers, params, json_body)

\* MCPAuthConfig(**auth): pydantic accepts the mapping when location and
\* format are values of their enums
Parses(auth) ==
    /\ auth.location \in {"header", "query", "body"}
    /\ auth.format \in {"raw", "prefix", "template"}

\* get_auth_config: None where the server has no auth mapping, and None
\* where MCPAuthConfig(**server['auth']) raises
GetAuthConfig(registry, name) ==
    LET server == GetServer(registry, name)
    IN  IF Has(server, "auth") /\ Parses(server.auth)
        THEN Opt(TRUE, server.auth)
        ELSE Opt(FALSE, <<>>)

\* the request an operation sends upstream, if it sends one
Outbound(sent, headers, params, json_body) ==
    [sent |-> sent, headers |-> headers, params |-> params, json_body |-> json_body]

\* what the operations keep of the components: get_server_info takes the
\* headers and the query parameters, the MCP operations the headers alone
\* (headers, _, _ = self._apply_authentication(auth_config, headers, {}, None))
Kept(action, applied) ==
    IF action = "get_server_info"
    THEN [applied EXCEPT !.json_body = {}]
    ELSE [applied EXCEPT !.params = {}, !.json_body = {}]

\* the outbound request of a proxy operation: none when applying the
\* authentication raised
Send(action, kept) == Outbound(~kept.raised, kept.headers, kept.params, kept.json_body)

\* the authentication part of list_tools, invoke_tool, get_server_info,
\* list_resources, read_resource, list_prompts and get_prompt
ProxyRequest(registry, action, mcp_server, world) ==
    LET auth_config == GetAuthConfig(registry, mcp_server)
    IN  IF auth_config.given
        THEN Send(action, Kept(action, ApplyAuthentication(auth_config.value, world, {}, {}, {})))
        ELSE Outbound(TRUE, {}, {}, {})

------------------------------------------------------------------------------
(* Upstream credentials as a state machine *)

ProxyActions == {"list_tools", "invoke_tool", "get_server_info", "list_resources",
                 "read_resource", "list_prompts", "get_prompt"}

Secret == <<"abc123">>

CredentialRefs ==
    {Opt(FALSE, <<>>), Opt(TRUE, <<"env://", "UPSTREAM_TOKEN">>),
     Opt(TRUE, <<"file://", "/run/secret">>), Opt(TRUE, <<"vault://", "secret">>),
     Opt(TRUE, <<"s3://", "secret">>)}

AuthConfigs ==
    {AuthConfig(location, name, format, <<"Bearer ">>, template, credential_ref, credential_value) :
        location \in {"header", "query", "body", "cookie"},
        name \in {<<"Authorization">>, <<"api_key">>},
        format \in {"raw", "prefix", "template"},
        template \in {Opt(FALSE, <<>>), Opt(TRUE, <<"Token ", Placeholder>>)},
        credential_ref \in CredentialRefs,
        credential_value \in {Opt(FALSE, <<>>), Opt(TRUE, <<"direct">>)}}

Worlds ==
    {World(env, file) :
        env \in {Opt(FALSE, <<>>), Opt(TRUE, <<>>), Opt(TRUE, Secret)},
        file \in {Opt(FALSE, <<>>), Opt(TRUE, Secret \o <<"\n">>)}}

\* the registry: upstream s1 with an auth mapping
AuthRegistries ==
    {{<<(<<"s1">>), [keys |-> {"url", "auth"}, url |-> "http", enabled |-> TRUE,
                    tags |-> <<>>, tools |-> <<>>, auth |-> auth_config]>>} :
        auth_config \in AuthConfigs}

InitCredential ==
    /\ yaml_policy = DefaultPolicy
    /\ enforcer = SyncYamlToCasbin(DefaultPolicy)
    /\ lastCheck = NoCheck
    /\ servers \in AuthRegistries
    /\ routed = NoRoute
    /\ AuthAtRest
    /\ ReloadAtRest
    /\ OauthAtRest
    /\ RestAtRest
    /\ flight = NoFlight

\* str(e) of the exception _apply_authentication raised in an operation
AuthenticationError(registry, mcp_server, world) ==
    LET auth_config == GetAuthConfig(registry, mcp_server)
    IN  IF ~auth_config.given THEN ""
        ELSE IF ~Truthy(auth_config.value.credential_value)
                /\ Truthy(auth_config.value.credential_ref)
                /\ ResolveCredential(auth_config.value.credential_ref.value, world).raised
        THEN Cause(auth_config.value.credential_ref.value)
        ELSE "Template format requires 'template' field"

\* a proxy operation on s1 prepares its upstream request; where that raises,
\* except Exception logs the error and raises it to the caller with str(e)
ProxyOperation(action, world) ==
    /\ routed' =
          LET request == ProxyRequest(servers, action, <<"s1">>, world)
          IN  [valid |-> TRUE, op |-> action, name |-> <<"s1">>, world |-> world,
               request |-> request,
               error |-> IF request.sent THEN ""
                         ELSE AuthenticationError(servers, <<"s1">>, world),
               audit |-> IF request.sent THEN {}
                         ELSE LogMcpRequest(ProxyLogKwargs(action, "error"), action,
                                            <<"s1">>, <<>>, "error").events,
               out |-> NoOut]
    /\ UNCHANGED notRouteVars

ProxyOperationStep == \E action \in ProxyActions, world \in Worlds : ProxyOperation(action, world)

NextCredential == ProxyOperationStep

SpecCredential == InitCredential /\ [][NextCredential]_vars

\* the component of a request at a location
At(request, location) ==
    IF location = "header" THEN request.headers
    ELSE IF location = "query" THEN request.params
    ELSE request.json_body

\* the auth spec names a credential: a direct value or a reference
Configured(auth_config) ==
    Truthy(auth_config.credential_value) \/ Truthy(auth_config.credential_ref)

\* C20: a proxy operation on an upstream whose auth spec has a resolvable
\* credential sends the formatted credential (prefix and credential, the
\* template with the credential substituted, or the raw credential) at the
\* configured location (header, query or body) under the configured name.
C20_CredentialAtConfiguredLocation ==
    (routed.valid /\ routed.op \in ProxyActions) =>
        LET auth_config == GetServer(servers, routed.name).auth
            credential == Credential(auth_config, routed.world)
            formatted == FormatCredential(auth_config, credential.value)
        IN  (/\ Parses(auth_config) /\ Configured(auth_config)
             /\ ~credential.raised /\ ~formatted.raised) =>
                /\ routed.request.sent
                /\ <<auth_config.name, formatted.value>>
                       \in At(routed.request, auth_config.location)

\* C26: upstream credentials fail closed: for an upstream with a non-empty
\* auth section no proxy operation sends a request without the credential
\* applied; an auth section that does not parse, or whose credential does not
\* resolve, makes the operation fail.
C26_CredentialsFailClosed ==
    (routed.valid /\ routed.op \in ProxyActions /\ routed.request.sent) =>
        LET auth == GetServer(servers, routed.name).auth
            credential == Credential(auth, routed.world)
            formatted == FormatCredential(auth, credential.value)
        IN  /\ Parses(auth)
            /\ Configured(auth) =>
                  /\ ~credential.raised /\ ~formatted.raised
                  /\ <<auth.name, formatted.value>> \in At(routed.request, auth.location)

\* C35: when an upstream's credential reference cannot be resolved (unset or
\* empty env:// variable, unreadable file://, any vault:// reference, unknown
\* scheme), the proxy operation fails with an error naming the cause, no
\* upstream transport is opened, and one audit event with status error is
\* emitted.
C35_UnresolvedCredentialFails ==
    (routed.valid /\ routed.op \in ProxyActions) =>
        LET auth == GetServer(servers, routed.name).auth
        IN  (/\ ~Truthy(auth.credential_value)
             /\ Truthy(auth.credential_ref)
             /\ ResolveCredential(auth.credential_ref.value, routed.world).raised) =>
                /\ ~routed.request.sent
                /\ routed.error = Cause(auth.credential_ref.value)
                /\ \E event \in routed.audit :
                      /\ routed.audit = {event}
                      /\ event.event_type = "mcp_request"
                      /\ event.status = "error"

\* no rule of the document decides the request: each rule does not match
\* it, or matches with an action other than allow and deny
NoRuleDecides(doc, user, resource, action) ==
    \A i \in 1..Len(doc.rules) :
        LET m == MatchRuleCondition(Get(doc.rules[i], "condition", NoCond),
                                    user, resource, action)
        IN  \/ m = "nomatch"
            \/ m = "match" /\ Get(doc.rules[i], "action", "deny") \notin {"allow", "deny"}

\* a permission row matches the request: its resource pattern is "*", equals
\* the resource or matches it as a regular expression, and its action is the
\* request's or "*"
PermissionMatches(row, resource, action) ==
    /\ \/ row[2] = Star
       \/ row[2] = resource
       \/ ReValid(row[2]) /\ ReMatch(row[2], resource)
    /\ (row[3] = "*" \/ row[3] = action)

\* a permission of the subject or of one of its roles matches
Granted(e, sub, resource, action) ==
    \E row \in e.p : HasLink(e.g, sub, row[1]) /\ PermissionMatches(row, resource, action)

\* C28: when no rule decides, check_permission allows with the reason
\* "allowed by user permission" if a role permission of the subject matches;
\* otherwise allows if one of a supplied group matches, naming that group;
\* otherwise returns the default policy verdict, deny unless default_policy
\* is allow.
C28_RolesThenGroupsThenDefault ==
    (/\ lastCheck.valid
     /\ NoRuleDecides(yaml_policy, lastCheck.user, lastCheck.resource, lastCheck.action)) =>
        LET out == lastCheck.out
            groups == IF lastCheck.groups.given THEN Range(lastCheck.groups.list) ELSE {}
            granting == {group \in groups :
                            Granted(enforcer, group, lastCheck.resource, lastCheck.action)}
        IN  IF Granted(enforcer, lastCheck.user, lastCheck.resource, lastCheck.action)
            THEN out = Return(TRUE, <<"allowed by user permission">>)
            ELSE IF granting # {}
            THEN \E group \in granting :
                    out = Return(TRUE, <<"allowed by group permission", group>>)
            ELSE IF yaml_policy.default_policy = "allow"
            THEN out = Return(TRUE, <<"allowed by default policy">>)
            ELSE out = Return(FALSE, <<"denied by default policy">>)

------------------------------------------------------------------------------
(* MCPProxy and MCPHTTPClient: one proxy operation, step by step *)

\* the operations that talk MCP through MCPHTTPClient.run_with_session;
\* get_server_info is a plain HTTP GET through httpx
McpActions == ProxyActions \ {"get_server_info"}

\* an operation in flight: where its coroutine is suspended (pc), what it
\* sent to the upstream so far (wire), the audit events it logged, how it
\* ended (result) and the error the caller got; the upstream session it
\* opened (0 before it opens one) and the sessions earlier operations used
Flight(pc, action, mcp_server, wire, audit, result, error, session, used) ==
    [pc |-> pc, action |-> action, mcp_server |-> mcp_server, wire |-> wire,
     audit |-> audit, result |-> result, error |-> error, session |-> session,
     used |-> used]

\* the checks at the head of an operation: get_server, the enabled flag
\* (not looked at by get_server_info), then server_config['url']
ConfigError(registry, action, mcp_server) ==
    LET server_config == GetServer(registry, mcp_server)
    IN  IF server_config.keys = {} THEN "not_configured"
        ELSE IF action # "get_server_info" /\ ~Get(server_config, "enabled", TRUE)
        THEN "disabled"
        ELSE IF ~Has(server_config, "url") THEN "KeyError"
        ELSE ""

\* the audit event of an operation that ends
Logged(action, mcp_server, status) ==
    LogMcpRequest(ProxyLogKwargs(action, status), action, mcp_server, <<>>, status).events

\* except Exception: the error is logged and raised to the caller
Failed(f, wire, error) ==
    Flight("done", f.action, f.mcp_server, wire,
           f.audit \cup Logged(f.action, f.mcp_server, "error"), "raise", error,
           f.session, f.used)

\* the operation returns: the success is logged
Succeeded(f, wire) ==
    Flight("done", f.action, f.mcp_server, wire,
           f.audit \cup Logged(f.action, f.mcp_server, "success"), "return", "",
           f.session, f.used)

\* the success is logged inside the try block: log_mcp_request writes the
\* event and db.log_audit raises after it, so that the except clause logs
\* the error and raises to the caller
SucceededUnstored(f, wire) ==
    Flight("done", f.action, f.mcp_server, wire,
           f.audit \cup Logged(f.action, f.mcp_server, "success")
                   \cup Logged(f.action, f.mcp_server, "error"),
           "raise", "audit", f.session, f.used)

\* asyncio.CancelledError is no Exception: it passes the except clauses of
\* the proxy, and the async with blocks it leaves close what was opened
Cancelled(f) ==
    Flight("done", f.action, f.mcp_server,
           IF f.wire = <<>> THEN <<>> ELSE Append(f.wire, "close"),
           f.audit, "cancelled", "CancelledError", f.session, f.used)

\* a session handed out again: one an earlier operation used, where there
\* is one
PooledSession(used) == IF used = {} THEN 1 ELSE CHOOSE session \in used : TRUE

\* streamablehttp_client(...) and ClientSession(read_stream, write_stream) are
\* built anew in every run_with_session, as httpx.AsyncClient() is in
\* get_server_info: the session is one no operation had before
NewSession(used) == Cardinality(used) + 1

\* the sessions the operations so far have used
UsedSessions(f) ==
    IF f.pc = "idle" THEN {}
    ELSE f.used \cup (IF f.session = 0 THEN {} ELSE {f.session})

\* the operation is called: it fails on the configuration, or creates its
\* client and suspends on opening the transport
StartOperation(action, mcp_server) ==
    /\ flight.pc \in {"idle", "done"}
    /\ Cardinality(UsedSessions(flight)) < MaxSessions
    /\ flight' =
          LET f == Flight("opening", action, mcp_server, <<>>, {}, "", "", 0,
                          UsedSessions(flight))
              error == ConfigError(servers, action, mcp_server)
          IN  IF error # "" THEN Failed(f, <<>>, error) ELSE f
    /\ UNCHANGED <<polVars, servers, routed, authVars, reloadVars, oauthVars, restVars>>

\* async with transport_ctx / httpx.AsyncClient(): the transport opens and
\* the first message goes out, initialize for MCP and the GET for
\* get_server_info, or opening fails
TransportOpened(ok) ==
    /\ flight.pc = "opening"
    /\ flight' =
          IF ~ok THEN Failed(flight, <<>>, "upstream")
          ELSE IF flight.action \in McpActions
          THEN [flight EXCEPT !.pc = "initializing", !.wire = <<"open", "initialize">>,
                              !.session = NewSession(flight.used)]
          ELSE [flight EXCEPT !.pc = "requesting", !.wire = <<"open", "request">>,
                              !.session = NewSession(flight.used)]
    /\ UNCHANGED <<polVars, servers, routed, authVars, reloadVars, oauthVars, restVars>>

\* await session.initialize() completes: the operation's request goes out,
\* or the failure leaves the async with blocks
Initialized(ok) ==
    /\ flight.pc = "initializing"
    /\ flight' =
          IF ok THEN [flight EXCEPT !.pc = "requesting", !.wire = Append(@, "request")]
          ELSE Failed(flight, Append(flight.wire, "close"), "upstream")
    /\ UNCHANGED <<polVars, servers, routed, authVars, reloadVars, oauthVars, restVars>>

\* await operation(session) completes: the async with blocks close the
\* transport, then the outcome is logged; db_ok is whether the audit store
\* takes the row of a success
Responded(ok, db_ok) ==
    /\ flight.pc = "requesting"
    /\ flight' =
          IF ok /\ db_ok THEN Succeeded(flight, Append(flight.wire, "close"))
          ELSE IF ok THEN SucceededUnstored(flight, Append(flight.wire, "close"))
          ELSE Failed(flight, Append(flight.wire, "close"), "upstream")
    /\ UNCHANGED <<polVars, servers, routed, authVars, reloadVars, oauthVars, restVars>>

\* the client aborts the inbound request: the handler's task is cancelled at
\* the await it is suspended on
ClientCancels ==
    /\ flight.pc \in {"opening", "initializing", "requesting"}
    /\ flight' = Cancelled(flight)
    /\ UNCHANGED <<polVars, servers, routed, authVars, reloadVars, oauthVars, restVars>>

\* the upstreams an operation is called on: two enabled, one disabled, one
\* not configured
SessionServers == {<<"s1">>, <<"broadcast">>, <<"s2">>, <<"s3">>}

StartOperationStep ==
    \E action \in ProxyActions, mcp_server \in SessionServers : StartOperation(action, mcp_server)

TransportOpenedStep == \E ok \in BOOLEAN : TransportOpened(ok)
InitializedStep == \E ok \in BOOLEAN : Initialized(ok)
RespondedStep == \E ok \in BOOLEAN, db_ok \in BOOLEAN : Responded(ok, db_ok)

NextSession ==
    \/ StartOperationStep
    \/ TransportOpenedStep
    \/ InitializedStep
    \/ RespondedStep
    \/ ClientCancels

SpecSession == InitNames /\ [][NextSession]_vars

\* C21: when the handler is cancelled while an upstream operation is in
\* flight, the upstream session that was opened is closed and a final audit
\* event with status error (reason client_cancelled) is logged for the
\* operation.
C21_CancelClosesAndAudits ==
    (flight.pc = "done" /\ flight.result = "cancelled") =>
        /\ flight.wire # <<>> => flight.wire[Len(flight.wire)] = "close"
        /\ \E event \in flight.audit :
              /\ event.action = flight.action
              /\ event.mcp_server = flight.mcp_server
              /\ event.status = "error"

\* the session protocol on an operation: what went to the upstream is, in
\* this order, open, initialize, the operation's request and close, with
\* nothing before the open and the request only after initialize; an
\* operation that ended has closed what it opened; and the session is none
\* an earlier operation used
FollowsProtocol(f) ==
    LET closed == f.wire # <<>> /\ f.wire[Len(f.wire)] = "close"
        sent == IF closed THEN SubSeq(f.wire, 1, Len(f.wire) - 1) ELSE f.wire
    IN  /\ sent \in {<<>>, <<"open">>, <<"open", "initialize">>,
                     <<"open", "initialize", "request">>}
        /\ (f.pc = "done" /\ f.wire # <<>>) => closed
        /\ f.session # 0 => f.session \notin f.used

C30_NoRequestToAbsentOrDisabled ==
    (/\ flight.pc # "idle"
     /\ \/ flight.mcp_server \notin Keys(servers)
        \/ ~Get(GetServer(servers, flight.mcp_server), "enabled", TRUE)) =>
        /\ flight.wire = <<>>
        /\ flight.pc = "done" /\ flight.result = "raise"
        /\ flight.error \in {"not_configured", "disabled"}

\* C34: every proxy operation (list_tools, invoke_tool, list_resources,
\* read_resource, list_prompts, get_prompt) emits exactly one mcp_request
\* audit event, whose status is success if and only if the operation returned
\* a result to its caller and error if and only if it raised.
C34_OneAuditEventPerOperation ==
    (flight.pc = "done" /\ flight.action \in McpActions) =>
        \E event \in flight.audit :
            /\ flight.audit = {event}
            /\ event.event_type = "mcp_request"
            /\ event.status = "success" <=> flight.result = "return"
            /\ event.status = "error" <=> flight.result # "return"

------------------------------------------------------------------------------
(* POST /api/v1/check-mcp-policy: the route of routes/policy.py *)

\* PolicyDecision
PolicyDecision(permission, continue, user_message) ==
    [permission |-> permission, continue |-> continue, user_message |-> user_message]

NoDecision == PolicyDecision("", FALSE, None)

\* PolicyEvaluator.evaluate: every request is allowed
Evaluate(tool_name, mcp_server, user_id) == PolicyDecision("allow", TRUE, None)

\* APIKeyAuthenticator.authenticate: an empty key is refused, every other
\* key is accepted
Authenticate(api_key) == IF api_key = <<>> THEN Raised ELSE Returned(api_key)

\* the keywords check_mcp_policy passes to log_mcp_request
PolicyLogKwargs ==
    {"user", "action", "mcp_server", "tool_name", "status", "policy_decision", "duration_ms"}

\* what the route answers and causes
PolicyAnswer(status, decision, evaluated, audit) ==
    [status |-> status, decision |-> decision, evaluated |-> evaluated, audit |-> audit]

\* a mutation of FailSecurely: the decision made is returned although the
\* audit call raised
FailOpen(decision) == decision

\* except Exception: deny on error
FailSecurely(decision) == PolicyDecision("deny", FALSE, "Policy evaluation failed. Please try again.")

\* the audit call and the return of check_mcp_policy: log_mcp_request
\* writes the event, then db.log_audit may raise
Audited(request, decision, log, db_ok) ==
    PolicyAnswer(200, IF log.raised \/ ~db_ok THEN FailSecurely(decision) ELSE decision,
                 TRUE, log.events)

\* the body of check_mcp_policy
CheckMcpPolicy(request, x_api_key, db_ok) ==
    IF Authenticate(x_api_key).raised
    THEN PolicyAnswer(401, NoDecision, FALSE, {})
    ELSE Audited(request, Evaluate(request.tool_name, request.mcp_server, request.user_id),
                 LogMcpRequest(PolicyLogKwargs, "check_policy", request.mcp_server,
                               request.tool_name, "success"),
                 db_ok)

\* the route as FastAPI serves it: the body must parse as MCPExecutionRequest
\* and the header x_api_key = Header(...) is required, else 422 before the
\* function is called
PolicyRoute(request, x_api_key, db_ok) ==
    IF ~request.parses \/ ~x_api_key.given
    THEN PolicyAnswer(422, NoDecision, FALSE, {})
    ELSE CheckMcpPolicy(request, x_api_key.value, db_ok)

\* MCPExecutionRequest: tool_name and mcp_server are required
MCPExecutionRequest(parses, tool_name, mcp_server, user_id) ==
    [parses |-> parses, tool_name |-> tool_name, mcp_server |-> mcp_server,
     user_id |-> user_id]

ExecutionRequests ==
    {MCPExecutionRequest(TRUE, tool_name, mcp_server, user_id) :
        tool_name \in {Echo, <<"search">>, <<"read", "_", "file">>},
        mcp_server \in {<<"s1">>, <<"s2">>, <<"web-search">>},
        user_id \in {None, "alice"}}
    \cup {MCPExecutionRequest(FALSE, <<>>, <<"s1">>, None)}

ApiKeys == {Opt(FALSE, <<>>), Opt(TRUE, <<>>), Opt(TRUE, <<"test-key-12345">>)}

\* POST /api/v1/check-mcp-policy arrives
CheckMcpPolicyCall(request, x_api_key, db_ok) ==
    /\ rest_exchange' = [valid |-> TRUE, route |-> "check-mcp-policy", request |-> request,
                         x_api_key |-> x_api_key, db_ok |-> db_ok,
                         answer |-> PolicyRoute(request, x_api_key, db_ok)]
    /\ UNCHANGED <<polVars, servers, routed, authVars, reloadVars, oauthVars,
                   auth_token_cache, auth_jwks_cache, flight>>

CheckMcpPolicyStep ==
    \E request \in ExecutionRequests, x_api_key \in ApiKeys, db_ok \in BOOLEAN :
        CheckMcpPolicyCall(request, x_api_key, db_ok)

NextPolicyRoute == CheckMcpPolicyStep

SpecPolicyRoute == InitNames /\ [][NextPolicyRoute]_vars

\* the latest request went to the policy route
PolicyChecked == rest_exchange.valid /\ rest_exchange.route = "check-mcp-policy"

C23_MissingApiKeyIs401 ==
    (PolicyChecked /\ rest_exchange.request.parses /\ ~Truthy(rest_exchange.x_api_key)) =>
        /\ rest_exchange.answer.status = 401
        /\ ~rest_exchange.answer.evaluated
        /\ rest_exchange.answer.audit = {}

------------------------------------------------------------------------------
(* invoke_tool_broadcast: the fan-out, step by step *)

\* a broadcast in flight: its targets, and for each target where its child
\* stands: "created" (the coroutine object exists, nothing of it has run),
\* "running", "returned" or "raised"
FanOutFlight(pc, target_servers, children) ==
    [pc |-> pc, target_servers |-> target_servers, children |-> children]

Terminated == {"returned", "raised"}

\* the first loop: task = self._invoke_tool_single(...) makes one coroutine
\* object per target and starts none of them
BroadcastBegins(target_servers) ==
    /\ flight.pc \in {"idle", "done"}
    /\ flight' = FanOutFlight("gathering", target_servers,
                              [i \in 1..Len(target_servers) |-> "created"])
    /\ UNCHANGED <<polVars, servers, routed, authVars, reloadVars, oauthVars, restVars>>

\* the second loop: result = await task runs child i, and the loop comes to
\* child i only when every child before it has terminated
Awaitable(children, i) ==
    /\ children[i] = "created"
    /\ \A j \in 1..(i - 1) : children[j] \in Terminated

\* the gathering loop awaits child i: the child starts to run
ChildStarts(i) ==
    /\ flight.pc = "gathering"
    /\ i \in 1..Len(flight.target_servers)
    /\ Awaitable(flight.children, i)
    /\ flight' = [flight EXCEPT !.children[i] = "running"]
    /\ UNCHANGED <<polVars, servers, routed, authVars, reloadVars, oauthVars, restVars>>

\* child i terminates: invoke_tool returns, or raises (the upstream fails or
\* times out, or the target is disabled or not configured)
ChildTerminates(i, ok) ==
    /\ flight.pc = "gathering"
    /\ i \in 1..Len(flight.target_servers)
    /\ flight.children[i] = "running"
    /\ flight' = [flight EXCEPT !.children[i] =
                      IF ok /\ ConfigError(servers, "invoke_tool", flight.target_servers[i]) = ""
                      THEN "returned" ELSE "raised"]
    /\ UNCHANGED <<polVars, servers, routed, authVars, reloadVars, oauthVars, restVars>>

\* the loop is through: the broadcast goes on to its audit call and ends
BroadcastEnds ==
    /\ flight.pc = "gathering"
    /\ \A i \in 1..Len(flight.target_servers) : flight.children[i] \in Terminated
    /\ flight' = [flight EXCEPT !.pc = "done"]
    /\ UNCHANGED <<polVars, servers, routed, authVars, reloadVars, oauthVars, restVars>>

BroadcastBeginsStep ==
    \E target_servers \in TargetLists \ {<<>>} : BroadcastBegins(target_servers)

ChildStartsStep == \E i \in 1..MaxTargets : ChildStarts(i)

ChildTerminatesStep == \E i \in 1..MaxTargets, ok \in BOOLEAN : ChildTerminates(i, ok)

NextFanOut == BroadcastBeginsStep \/ ChildStartsStep \/ ChildTerminatesStep \/ BroadcastEnds

SpecFanOut == InitNames /\ [][NextFanOut]_vars

\* C25: the calls of a broadcast are in flight together: no child has
\* terminated while another has not been started; a child that failed
\* leaves the others to run; and the broadcast ends only when every child
\* has terminated.
C25_ChildrenRunTogether ==
    flight.pc \in {"gathering", "done"} =>
        /\ (\E i \in 1..Len(flight.target_servers) : flight.children[i] \in Terminated)
              => \A j \in 1..Len(flight.target_servers) : flight.children[j] # "created"
        /\ flight.pc = "done" =>
              \A i \in 1..Len(flight.target_servers) : flight.children[i] \in Terminated


------------------------------------------------------------------------------
(* A tools/list or a broadcast alongside changes of the registry *)

\* a request being handled: the registry as it was when the handler selected
\* its upstreams (snapshot), the names still to call, the upstream the
\* handler is suspended on, and every upstream contacted with the
\* configuration the operation read for it
Handling(pc, action, snapshot, pending, contacted) ==
    [pc |-> pc, action |-> action, snapshot |-> snapshot, pending |-> pending,
     contacted |-> contacted]

\* the upstreams a handler selects: handle_list_tools takes the enabled
\* servers, invoke_tool_broadcast its targets for the tool echo
Selected(registry, action) ==
    IF action = "list_tools" THEN ListOf(GetEnabledServers(registry))
    ELSE TargetServers(registry, <<"echo">>, Opt(FALSE, <<>>), Opt(FALSE, <<>>))

\* the handler runs on until an upstream is contacted: each operation reads
\* mcp_config.get_server(name) when it is called; one that fails on the
\* configuration raises at once, is caught, and the loop takes the next name
RECURSIVE Advance(_, _)
Advance(h, registry) ==
    IF h.pending = <<>> THEN [h EXCEPT !.pc = "done"]
    ELSE LET mcp_server == Head(h.pending)
             rest == [h EXCEPT !.pending = Tail(h.pending)]
         IN  IF ConfigError(registry, h.action, mcp_server) # ""
             THEN Advance(rest, registry)
             ELSE [rest EXCEPT !.pc = "awaiting",
                               !.contacted = @ \cup {<<mcp_server, GetServer(registry, mcp_server)>>}]

\* the request arrives: the handler selects its upstreams and calls the first
HandlerBegins(action) ==
    /\ flight.pc \in {"idle", "done"}
    /\ flight' = Advance(Handling("selecting", action, servers, Selected(servers, action), {}),
                         servers)
    /\ UNCHANGED <<polVars, servers, routed, authVars, reloadVars, oauthVars, restVars>>

\* the upstream the handler waits for answers or fails: the handler resumes
HandlerResumes ==
    /\ flight.pc = "awaiting"
    /\ flight' = Advance(flight, servers)
    /\ UNCHANGED <<polVars, servers, routed, authVars, reloadVars, oauthVars, restVars>>

\* the entry add_server writes
Added(url, enabled) ==
    [ServerConfig({"url", "type", "timeout", "enabled", "auth"}, enabled, <<>>, <<>>)
        EXCEPT !.url = url]

\* add_server: self.servers[name] = {...}
AddServer(name, url, enabled) ==
    /\ servers' = {item \in servers : item[1] # name} \cup {<<name, Added(url, enabled)>>}
    /\ UNCHANGED <<polVars, routed, authVars, reloadVars, oauthVars, restVars, flight>>

\* remove_server: del self.servers[name] where the name is a key
RemoveServer(name) ==
    /\ name \in Keys(servers)
    /\ servers' = {item \in servers : item[1] # name}
    /\ UNCHANGED <<polVars, routed, authVars, reloadVars, oauthVars, restVars, flight>>

HandlerBeginsStep == \E action \in {"list_tools", "invoke_tool"} : HandlerBegins(action)

AddServerStep ==
    \E url \in {"http", "https"}, enabled \in BOOLEAN : AddServer(<<"s1">>, url, enabled)

RemoveServerStep == RemoveServer(<<"broadcast">>)

NextSnapshot ==
    \/ HandlerBeginsStep
    \/ HandlerResumes
    \/ AddServerStep
    \/ RemoveServerStep
    \/ LoadConfigStep
    \/ AssignServers

SpecSnapshot == InitNames /\ [][NextSnapshot]_vars

\* the part of an upstream's configuration an operation contacts it with
Used(server_config) ==
    [enabled |-> Get(server_config, "enabled", TRUE), url |-> server_config.url]

\* C27: while one tools/list or broadcast is handled, every upstream it
\* contacts is one it selected, and the enabled flag and url it is contacted
\* with are those of the registry snapshot the selection was made from, even
\* if a reload, an add_server or a remove_server ran while the handler was
\* suspended on upstream I/O.
C27_OneSnapshotPerRequest ==
    flight.pc \in {"awaiting", "done"} =>
        \A c \in flight.contacted :
            /\ c[1] \in Range(Selected(flight.snapshot, flight.action))
            /\ Used(c[2]) = Used(GetServer(flight.snapshot, c[1]))


------------------------------------------------------------------------------
(* tools/list, then tools/call of a name it returned *)

\* an upstream name that holds the separator
MySrv == <<"my", "_", "_", "srv">>

\* a tool name that holds the separator
ToolAB == <<"a", "_", "_", "b">>

\* the registries listed from and called into: A declares the tool echo in
\* its configuration or declares nothing, B declares nothing, and a third
\* enabled upstream has a plain name, the name broadcast, or a name with "__"
RoundTripRegistries ==
    { { <<(<<"A">>), ServerConfig({"url", "tools"}, TRUE, <<>>, tA)>>,
        <<(<<"B">>), ServerConfig({"url"}, TRUE, <<>>, <<>>)>>,
        <<third, ServerConfig({"url", "enabled"}, TRUE, <<>>, <<>>)>> } :
      tA \in {<<>>, <<Echo>>}, third \in {<<"C">>, <<"broadcast">>, MySrv} }

\* what an upstream answers to tools/list
RoundTripListings ==
    {Listing(FALSE, <<>>), Listing(TRUE, <<Echo>>), Listing(TRUE, <<Echo, ToolAB>>)}

InitRoundTrip ==
    /\ yaml_policy = DefaultPolicy
    /\ enforcer = SyncYamlToCasbin(DefaultPolicy)
    /\ lastCheck = NoCheck
    /\ servers \in RoundTripRegistries
    /\ routed = NoRoute
    /\ AuthAtRest
    /\ ReloadAtRest
    /\ OauthAtRest
    /\ RestAtRest
    /\ flight = NoFlight

\* tools/call of a name the latest tools/list returned, with no arguments
CallListed(name, ups) ==
    /\ routed.valid
    /\ name \in Range(routed.listed)
    /\ routed' = [routed EXCEPT !.op = "tools/call", !.name = name,
                                !.out = HandleCallTool(servers, name, NoArguments, ups)]
    /\ UNCHANGED notRouteVars

ListFirstStep ==
    \E answers \in [1..Cardinality(GetEnabledServers(servers)) -> RoundTripListings] :
        ListCall("list_tools", ListOf(GetEnabledServers(servers)), answers)

CallListedStep ==
    /\ routed.valid
    /\ \E i \in 1..Len(routed.listed), ups \in SameUps : CallListed(routed.listed[i], ups)

NextRoundTrip == ListFirstStep \/ CallListedStep

SpecRoundTrip == InitRoundTrip /\ [][NextRoundTrip]_vars

\* tools_by_name of the latest tools/list
Recorded ==
    ToolsByName(routed.names, Fetched(servers, "list_tools", routed.names, routed.answers))

\* the servers tools/list named in the description and the default of
\* broadcast__{tool_name}
RecordedProviders(tool_name) ==
    {entry[2] : entry \in Range(ServerList(Recorded, tool_name))}

\* C31: under an unchanged registry, a call of a broadcast__{t} tool that
\* tools/list advertised, with no servers argument, targets exactly the
\* upstreams tools/list recorded as providers of t.
C31_BroadcastTargetsAdvertisedProviders ==
    (routed.valid /\ routed.op = "tools/call") =>
        \A tool_name \in {Echo, ToolAB} :
            (/\ routed.name = BroadcastPrefix \o tool_name
             /\ Len(ServerList(Recorded, tool_name)) > 1) =>
                Range(routed.out.broadcast.target_servers) = RecordedProviders(tool_name)

\* C32: under an unchanged registry, every single-origin name {u}__{t} that
\* handle_list_tools emitted, passed back to handle_call_tool, results in
\* exactly one invoke_tool call, on upstream u with tool name t.
C32_ListCallRoundTrip ==
    (routed.valid /\ routed.op = "tools/call") =>
        \A i \in 1..Len(routed.names) :
            \A t \in Range(Fetched(servers, "list_tools", routed.names, routed.answers)[i]) :
                routed.name = routed.names[i] \o Sep \o t =>
                    /\ routed.out.proxy = {<<"invoke_tool", routed.names[i], t>>}
                    /\ routed.out.upstream = {<<"invoke_tool", routed.names[i], t>>}


------------------------------------------------------------------------------
(* Broadcast names whose tool or tag holds the prefix text again *)

\* the text of a name behind its leading prefix
After(name, prefix) == SubSeq(name, Len(prefix) + 1, Len(name))

Relay == <<"re">> \o BroadcastPrefix \o Echo
Nested == <<"a">> \o ByTagPrefix \o <<"b">>

\* tool names upstreams report, one of them holding "broadcast__"
PrefixTools == {Echo, <<"echo", "_", "_", "v2">>, Relay}

\* tags of the registry, one of them holding "broadcast__by_tag__"
PrefixTags == {<<"logging">>, Nested, <<"a", "b">>}

\* three enabled upstreams, one under each tag
PrefixServers ==
    { <<(<<"s1">>), ServerConfig({"url", "tags"}, TRUE, <<(<<"logging">>)>>, <<>>)>>,
      <<(<<"s2">>), ServerConfig({"url", "tags"}, TRUE, <<Nested>>, <<>>)>>,
      <<(<<"s3">>), ServerConfig({"url", "tags"}, TRUE, <<(<<"a", "b">>)>>, <<>>)>> }

InitPrefix ==
    /\ yaml_policy = DefaultPolicy
    /\ enforcer = SyncYamlToCasbin(DefaultPolicy)
    /\ lastCheck = NoCheck
    /\ servers = PrefixServers
    /\ routed = NoRoute
    /\ AuthAtRest
    /\ ReloadAtRest
    /\ OauthAtRest
    /\ RestAtRest
    /\ flight = NoFlight

\* tools/call of broadcast__<tool_name>
BroadcastNamed(tool_name, servers_arg, ups) ==
    /\ routed' = [valid |-> TRUE, op |-> "tools/call", name |-> BroadcastPrefix \o tool_name,
                  out |-> HandleCallTool(servers, BroadcastPrefix \o tool_name,
                                         Arguments(Opt(FALSE, <<>>), servers_arg), ups)]
    /\ UNCHANGED notRouteVars

\* the servers argument of a call: absent, or a list of up to two upstreams
PrefixTargets ==
    {Opt(FALSE, <<>>)}
    \cup {Opt(TRUE, list) : list \in UNION {[1..n -> Keys(PrefixServers)] : n \in 0..2}}

BroadcastNamedStep ==
    \E tool_name \in PrefixTools, servers_arg \in PrefixTargets, ups \in Ups :
        BroadcastNamed(tool_name, servers_arg, ups)

ByTagNamedStep ==
    \E tag \in PrefixTags, tool_name \in PrefixTools, ups \in Ups :
        BroadcastByTag(tag, Opt(TRUE, tool_name), ups)

NextPrefix == BroadcastNamedStep \/ ByTagNamedStep

SpecPrefix == InitPrefix /\ [][NextPrefix]_vars

\* C37: for a call named broadcast__{t} (resp. broadcast__by_tag__{g}), the
\* tool name (resp. tag) used for the broadcast is exactly the part of the
\* name after the leading prefix, with any later occurrence of the prefix
\* text inside t or g preserved.
C37_NameAfterLeadingPrefix ==
    (routed.valid /\ routed.op = "tools/call") =>
        IF StartsWith(routed.name, ByTagPrefix)
        THEN routed.out.broadcast.target_servers =
                 TaggedServers(servers, After(routed.name, ByTagPrefix))
        ELSE routed.out.proxy =
                 {<<"invoke_tool_broadcast", <<>>, After(routed.name, BroadcastPrefix)>>}


------------------------------------------------------------------------------
(* The audit events of the logger and of the tool routes *)

Absent == Opt(FALSE, <<>>)
Given(value) == Opt(TRUE, value)

\* {k: v for k, v in event_data.items() if v is not None}
OmitNone(event_data) == {item \in event_data : item[2].given}

\* a logged event: the dict handed to _log_event, and the dict handed to
\* db.log_audit ({} where the method writes no row)
Emitted(event_data, row) == [stream |-> event_data, store |-> row]

\* log_tool_registration
LogToolRegistration(tool_name, user, status, error) ==
    Emitted(OmitNone({<<"event_type", Given("tool_registration")>>, <<"tool_name", tool_name>>,
                      <<"user", user>>, <<"status", status>>, <<"error", error>>}),
            {<<"tool_name", tool_name>>, <<"user", user>>, <<"action", Given("register")>>,
             <<"status", status>>, <<"error", error>>})

\* log_tool_deletion
LogToolDeletion(tool_name, user, status, error) ==
    Emitted(OmitNone({<<"event_type", Given("tool_deletion")>>, <<"tool_name", tool_name>>,
                      <<"user", user>>, <<"status", status>>, <<"error", error>>}),
            {<<"tool_name", tool_name>>, <<"user", user>>, <<"action", Given("delete")>>,
             <<"status", status>>, <<"error", error>>})

\* log_tool_invocation
LogToolInvocation(tool_name, user, status, error) ==
    Emitted(OmitNone({<<"event_type", Given("tool_invocation")>>, <<"tool_name", tool_name>>,
                      <<"user", user>>, <<"status", status>>, <<"parameters", Absent>>,
                      <<"output", Absent>>, <<"error", error>>,
                      <<"execution_time_ms", Absent>>}),
            {<<"tool_name", tool_name>>, <<"user", user>>, <<"action", Given("invoke")>>,
             <<"status", status>>, <<"parameters", Absent>>, <<"output", Absent>>,
             <<"error", error>>, <<"execution_time", Absent>>})

\* log_policy_violation: the event is logged as built, and the row is
\* stored with the status policy_violation
LogPolicyViolationEvent(tool_name, user, action, reason) ==
    Emitted({<<"event_type", Given("policy_violation")>>, <<"tool_name", tool_name>>,
             <<"user", user>>, <<"action", action>>, <<"reason", reason>>,
             <<"status", Given("denied")>>},
            {<<"tool_name", tool_name>>, <<"user", user>>, <<"action", action>>,
             <<"status", Given("policy_violation")>>, <<"error", reason>>})

\* log_auth_event: no row is stored
LogAuthEvent(user, action, status, error, ip_address) ==
    Emitted(OmitNone({<<"event_type", Given("authentication")>>, <<"user", user>>,
                      <<"action", action>>, <<"status", status>>, <<"error", error>>,
                      <<"ip_address", ip_address>>}),
            {})

\* the body of log_mcp_request, as the proxy operations call it
LogMcpRequestEvent(user, action, mcp_server, status, error) ==
    Emitted(OmitNone({<<"event_type", Given("mcp_request")>>, <<"user", user>>,
                      <<"action", action>>, <<"mcp_server", mcp_server>>,
                      <<"tool_name", Absent>>, <<"parameters", Absent>>,
                      <<"status", status>>, <<"policy_decision", Absent>>,
                      <<"duration_ms", Given("0")>>,
                      <<"response_status", IF error.given THEN Absent ELSE Given("200")>>,
                      <<"error", error>>}),
            {<<"tool_name", mcp_server>>, <<"user", user>>, <<"action", action>>,
             <<"status", status>>, <<"parameters", Absent>>, <<"error", error>>,
             <<"execution_time", Given("0")>>})

AuditUsers == {Given("alice"), Given("bob")}
AuditTools == {Given("echo"), Given("grep"), Given("ls")}
AuditErrors == {Given("Tool path does not exist"), Given("Timeout must be positive")}

\* what a handler logged last
LastLogged(op, emitted) ==
    [valid |-> TRUE, op |-> op, name |-> <<>>, out |-> NoOut,
     stream |-> emitted.stream, store |-> emitted.store]

\* POST /tools/register: the manifest does not validate, the tool exists,
\* the tool is created, or the database raises
RegisterTool(tool_name, user, outcome, error_msg) ==
    /\ routed' = LastLogged("register_tool",
                 IF outcome = "invalid" THEN LogToolRegistration(tool_name, user, Given("failure"), error_msg)
                 ELSE IF outcome = "exists"
                 THEN LogToolRegistration(tool_name, user, Given("failure"), Given("Tool already exists"))
                 ELSE IF outcome = "created"
                 THEN LogToolRegistration(tool_name, user, Given("success"), Absent)
                 ELSE LogToolRegistration(tool_name, user, Given("failure"),
                                          Given("Failed to register tool")))
    /\ UNCHANGED notRouteVars

\* DELETE /tools/{tool_name}
DeleteTool(tool_name, user, outcome) ==
    /\ routed' = LastLogged("delete_tool",
                 IF outcome = "missing"
                 THEN LogToolDeletion(tool_name, user, Given("failure"), Given("Tool not found"))
                 ELSE IF outcome = "deleted"
                 THEN LogToolDeletion(tool_name, user, Given("success"), Absent)
                 ELSE LogToolDeletion(tool_name, user, Given("failure"), Given("Failed to delete tool")))
    /\ UNCHANGED notRouteVars

\* POST /invoke of a tool that is not registered
InvokeMissingTool(tool_name, user) ==
    /\ routed' = LastLogged("invoke_tool_route",
                 LogToolInvocation(tool_name, user, Given("failure"), Given("Tool not found")))
    /\ UNCHANGED notRouteVars

\* a proxy operation ends
ProxyLogs(user, action, ok) ==
    /\ routed' = LastLogged("proxy",
                 LogMcpRequestEvent(user, Given(action), Given("s1"),
                                    Given(IF ok THEN "success" ELSE "error"),
                                    IF ok THEN Absent ELSE Given("upstream")))
    /\ UNCHANGED notRouteVars

\* a caller logs a policy violation
PolicyViolationLogged(tool_name, user, action) ==
    /\ routed' = LastLogged("log_policy_violation",
                 LogPolicyViolationEvent(tool_name, user, Given(action), Given("Access denied by policy")))
    /\ UNCHANGED notRouteVars

\* a caller logs an authentication event
AuthEventLogged(user, status, error, ip_address) ==
    /\ routed' = LastLogged("log_auth_event", LogAuthEvent(user, Given("login"), Given(status), error, ip_address))
    /\ UNCHANGED notRouteVars

RegisterToolStep ==
    \E tool_name \in AuditTools, user \in AuditUsers,
       outcome \in {"invalid", "exists", "created", "db_error"}, error_msg \in AuditErrors :
        RegisterTool(tool_name, user, outcome, error_msg)
DeleteToolStep ==
    \E tool_name \in AuditTools, user \in AuditUsers, outcome \in {"missing", "deleted", "db_error"} :
        DeleteTool(tool_name, user, outcome)
InvokeMissingToolStep ==
    \E tool_name \in AuditTools, user \in AuditUsers : InvokeMissingTool(tool_name, user)
ProxyLogsStep ==
    \E user \in AuditUsers, action \in ProxyActions, ok \in BOOLEAN : ProxyLogs(user, action, ok)
PolicyViolationLoggedStep ==
    \E tool_name \in AuditTools, user \in AuditUsers, action \in {"invoke_tool", "list_tools"} :
        PolicyViolationLogged(tool_name, user, action)
AuthEventLoggedStep ==
    \E user \in AuditUsers \cup {Absent}, status \in {"success", "error"},
       error \in {Absent, Given("invalid token")}, ip_address \in {Absent, Given("10.0.0.1")} :
        AuthEventLogged(user, status, error, ip_address)

NextAudit ==
    \/ RegisterToolStep
    \/ DeleteToolStep
    \/ InvokeMissingToolStep
    \/ ProxyLogsStep
    \/ PolicyViolationLoggedStep
    \/ AuthEventLoggedStep

SpecAudit == InitNames /\ [][NextAudit]_vars

EventTypes == {"mcp_request", "tool_invocation", "policy_violation", "authentication",
               "tool_registration", "tool_deletion"}
Statuses == {"pending", "success", "denied", "error"}

\* the values a dict holds under a key
Field(dict, key) == {item[2] : item \in {x \in dict : x[1] = key}}

\* C38: every audit event emitted by the gateway, in the structured stream
\* and in the local store, has an event_type in the closed set {mcp_request,
\* tool_invocation, policy_violation, authentication, tool_registration,
\* tool_deletion} and a status in {pending, success, denied, error}, and
\* fields whose value is nil are omitted from the structured event.
C38_ClosedEventTypesAndStatuses ==
    (routed.valid /\ routed.op \in {"register_tool", "delete_tool", "invoke_tool_route", "proxy",
                                    "log_policy_violation", "log_auth_event"}) =>
        /\ \E event_type \in EventTypes : Field(routed.stream, "event_type") = {Given(event_type)}
        /\ \E status \in Statuses : Field(routed.stream, "status") = {Given(status)}
        /\ \A item \in routed.stream : item[2].given
        /\ routed.store # {} =>
              \E status \in Statuses : Field(routed.store, "status") = {Given(status)}

====
